---- MODULE Spec2Model ----
(***************************************************************************)
(* A model of the transformer layer of the Copper CRM / MCP adapter        *)
(* (src/app/mapping/*.py with the schemas of src/app/models/*.py), of the  *)
(* HTTP endpoints that call it (src/app/main.py with the Copper client of  *)
(* src/app/copper/client/base.py), of the command dispatchers and handlers *)
(* (src/app/mcp/server/fastmcp.py, src/app/transport/copper_transport.py,  *)
(* src/app/mcp_server.py), of the entity clients (src/app/copper/client/,  *)
(* src/app/copper/entities/base.py) and of the credentials                 *)
(* (src/app/copper/auth.py).                                               *)
(*                                                                         *)
(* The credentials of src/app/copper/auth.py are the one stateful part: a  *)
(* behaviour of op "auth" is a sequence of calls of its functions over the *)
(* module's token cache, under one environment, while the clock advances.  *)
(*                                                                         *)
(* The rest is stateless: every request is one call of a pure function.    *)
(* A behaviour of the model is there the life of one request: Init         *)
(* draws the operation and its argument from bounded sets, one action      *)
(* performs the call (the whole method, with every helper it calls) and    *)
(* stores what it returned or raised, and for the round trip a second      *)
(* action feeds the forward result to the reverse transformer.             *)
(*                                                                         *)
(* Python values are tagged records [t |-> <type>, v |-> <payload>] so     *)
(* that a raw integer, its decimal string, a list, a dict and None are     *)
(* all different values.  Python strings are sequences of one-character    *)
(* strings, so that str(), int(), split() and strftime() are computed      *)
(* character by character.                                                 *)
(***************************************************************************)
EXTENDS Integers, Sequences, FiniteSets, TLC

VARIABLES op, kind, arg, pc, ret, rev, token_cache, now

vars == <<op, kind, arg, pc, ret, rev, token_cache, now>>

(***************************************************************************)
(* Bounds of the model.                                                    *)
(***************************************************************************)
\* the largest CRM id drawn
MaxId == 12
\* the longest list of upstream responses to one request
MaxAttempts == 4
\* the number of times the clock advances past the life of a cache entry
MaxTicks == 2
\* the longest list handed to bulk_create
MaxItems == 3
\* the longest contact list handed to a primary-contact selector
MaxContacts == 3

(***************************************************************************)
(* Python values.                                                          *)
(***************************************************************************)
PyNone == [t |-> "none", v |-> 0]
PyInt(n) == [t |-> "int", v |-> n]
PyFloat(n) == [t |-> "float", v |-> n]
PyStr(s) == [t |-> "str", v |-> s]
PyDatetime(secs) == [t |-> "datetime", v |-> secs]
PyList(q) == [t |-> "list", v |-> q]
PyDict(f) == [t |-> "dict", v |-> f]
PyObj(r) == [t |-> "object", v |-> r]
\* the default of a model field declared without one
PydanticUndefined == [t |-> "undefined", v |-> 0]
\* a key the input dict does not have
Missing == [t |-> "missing", v |-> 0]

IsNone(x) == x.t = "none"

\* bool(x) of Python
Truthy(x) ==
  CASE x.t = "none" -> FALSE
    [] x.t = "int" -> x.v # 0
    [] x.t = "float" -> x.v # 0
    [] x.t = "str" -> Len(x.v) > 0
    [] x.t = "list" -> Len(x.v) > 0
    [] x.t = "dict" -> DOMAIN x.v # {}
    [] OTHER -> TRUE

\* a or b
PyOr(a, b) == IF Truthy(a) THEN a ELSE b

\* a get that answers an absent key with the empty string
DictGet_Blank(d, k) == IF k \in DOMAIN d.v THEN d.v[k] ELSE PyStr(<< >>)

\* d.get(k) and d.get(k, default) of a dict
DictGet(d, k) == IF k \in DOMAIN d.v THEN d.v[k] ELSE PyNone
DictGetDefault(d, k, default) == IF k \in DOMAIN d.v THEN d.v[k] ELSE default
HasKey(d, k) == k \in DOMAIN d.v

\* the outcome of a call: a returned value or a raised exception
Returned(x) == [raised |-> "", value |-> x]
Raised(e) == [raised |-> e, value |-> PyNone]
NoCall == [raised |-> "not called", value |-> PyNone]

(***************************************************************************)
(* Strings.                                                                *)
(***************************************************************************)
Digits == <<"0", "1", "2", "3", "4", "5", "6", "7", "8", "9">>

sWork == <<"w", "o", "r", "k">>
sWorkCap == <<"W", "o", "r", "k">>
sHome == <<"h", "o", "m", "e">>
sUser == <<"u", "s", "e", "r">>
sPerson == <<"p", "e", "r", "s", "o", "n">>
sCompany == <<"c", "o", "m", "p", "a", "n", "y">>
sOpportunity == <<"o", "p", "p", "o", "r", "t", "u", "n", "i", "t", "y">>
sTask == <<"t", "a", "s", "k">>
sCopper == <<"c", "o", "p", "p", "e", "r">>
sEmpty == << >>

\* str(n) of an int
RECURSIVE IntToStr(_)
IntToStr(n) ==
  IF n < 0 THEN <<"-">> \o IntToStr(-n)
  ELSE IF n < 10 THEN <<Digits[n + 1]>>
  ELSE IntToStr(n \div 10) \o <<Digits[(n % 10) + 1]>>

\* str(x) of the values the transformers stringify
PyStrOf(x) ==
  CASE x.t = "int" -> PyStr(IntToStr(x.v))
    [] x.t = "none" -> PyStr(<<"N", "o", "n", "e">>)
    [] OTHER -> x

IsDigit(c) == \E i \in 1..10 : Digits[i] = c
DigitValue(c) == (CHOOSE i \in 1..10 : Digits[i] = c) - 1

RECURSIVE DigitsToNat(_)
DigitsToNat(s) ==
  IF Len(s) = 0 THEN 0
  ELSE 10 * DigitsToNat(SubSeq(s, 1, Len(s) - 1)) + DigitValue(s[Len(s)])

IsDecimal(s) == Len(s) > 0 /\ \A i \in 1..Len(s) : IsDigit(s[i])

\* int(x): a str of digits with an optional sign parses, an int is itself,
\* None raises TypeError and any other text ValueError
PyIntOf(x) ==
  CASE x.t = "int" -> Returned(x)
    [] x.t = "float" -> Returned(PyInt(x.v))
    [] x.t = "str" ->
         IF IsDecimal(x.v) THEN Returned(PyInt(DigitsToNat(x.v)))
         ELSE IF Len(x.v) > 1 /\ x.v[1] = "-" /\ IsDecimal(Tail(x.v))
           THEN Returned(PyInt(0 - DigitsToNat(Tail(x.v))))
         ELSE IF Len(x.v) > 1 /\ x.v[1] = "+" /\ IsDecimal(Tail(x.v))
           THEN Returned(PyInt(DigitsToNat(Tail(x.v))))
         ELSE Raised("ValueError")
    [] OTHER -> Raised("TypeError")

Pad2(n) == <<Digits[(n \div 10) + 1], Digits[(n % 10) + 1]>>
Pad4(n) == Pad2(n \div 100) \o Pad2(n % 100)

\* datetime.fromtimestamp(secs, timezone.utc).strftime("%Y-%m-%dT%H:%M:%SZ"):
\* the civil date of the day count, proleptic Gregorian calendar
Strftime(secs) ==
  LET days == secs \div 86400
      rest == secs % 86400
      z == days + 719468
      era == z \div 146097
      doe == z - era * 146097
      yoe == (doe - doe \div 1460 + doe \div 36524 - doe \div 146096) \div 365
      doy == doe - (365 * yoe + yoe \div 4 - yoe \div 100)
      mp == (5 * doy + 2) \div 153
      d == doy - (153 * mp + 2) \div 5 + 1
      m == IF mp < 10 THEN mp + 3 ELSE mp - 9
      y == yoe + era * 400 + (IF m <= 2 THEN 1 ELSE 0)
  IN Pad4(y) \o <<"-">> \o Pad2(m) \o <<"-">> \o Pad2(d) \o <<"T">>
       \o Pad2(rest \div 3600) \o <<":">> \o Pad2((rest % 3600) \div 60)
       \o <<":">> \o Pad2(rest % 60) \o <<"Z">>

(***************************************************************************)
(* The shared helpers of BaseTransformer and the overrides of the          *)
(* subclasses.                                                             *)
(***************************************************************************)

\* BaseTransformer._get_primary_contact: the loop over the contacts from
\* position i on; the contacts are dicts read with .get("category") and
\* ["value"]
RECURSIVE BaseScanWork(_, _)
BaseScanWork(contacts, i) ==
  IF i > Len(contacts) THEN
    IF HasKey(contacts[1], "value") THEN Returned(contacts[1].v["value"])
    ELSE Raised("KeyError")
  ELSE IF DictGet(contacts[i], "category") = PyStr(sWork) THEN
    IF HasKey(contacts[i], "value") THEN Returned(contacts[i].v["value"])
    ELSE Raised("KeyError")
  ELSE BaseScanWork(contacts, i + 1)

Base_get_primary_contact(contacts) ==
  IF ~Truthy(contacts) THEN Returned(PyNone)
  ELSE BaseScanWork(contacts.v, 1)

\* str.lower() on the letters of the categories and of the entity types
Lower(s) ==
  [i \in 1..Len(s) |->
     CASE s[i] = "W" -> "w" [] s[i] = "O" -> "o" [] s[i] = "R" -> "r"
       [] s[i] = "K" -> "k" [] s[i] = "P" -> "p" [] s[i] = "C" -> "c"
       [] OTHER -> s[i]]

\* the selector with the last work contact taken for the first
Person_get_primary_contact_LastWork(contacts, preferred_category) ==
  IF ~Truthy(contacts) THEN PyNone
  ELSE LET work_contacts ==
             SelectSeq(contacts.v,
                       LAMBDA c : c.v.category = preferred_category)
       IN IF Len(work_contacts) > 0 THEN work_contacts[Len(work_contacts)]
          ELSE contacts.v[1]

\* PersonTransformer._get_primary_contact: the contacts are EmailPhone
\* objects; the first of those whose category equals preferred_category,
\* else the first contact
Person_get_primary_contact(contacts, preferred_category) ==
  IF ~Truthy(contacts) THEN PyNone
  ELSE LET work_contacts ==
             SelectSeq(contacts.v,
                       LAMBDA c : c.v.category = preferred_category)
       IN IF Len(work_contacts) > 0 THEN work_contacts[1]
          ELSE contacts.v[1]

\* the selector with the categories compared in lower case
Company_get_primary_contact_AnyCase(contacts, preferred_category) ==
  IF ~Truthy(contacts) THEN PyNone
  ELSE LET work_contacts ==
             SelectSeq(contacts.v,
                       LAMBDA c : Lower(c.v.category.v)
                                    = Lower(preferred_category.v))
       IN IF Len(work_contacts) > 0 THEN work_contacts[1]
          ELSE contacts.v[1]

\* CompanyTransformer._get_primary_contact: the same code
Company_get_primary_contact(contacts, preferred_category) ==
  IF ~Truthy(contacts) THEN PyNone
  ELSE LET work_contacts ==
             SelectSeq(contacts.v,
                       LAMBDA c : c.v.category = preferred_category)
       IN IF Len(work_contacts) > 0 THEN work_contacts[1]
          ELSE contacts.v[1]

\* the builder with `if name is not None` for `if name`
Base_create_relationship_NameNotNone(rel_type, rel_id, name) ==
  IF IsNone(rel_id) THEN PyDict([data |-> PyNone])
  ELSE LET rel_data == [type |-> rel_type, id |-> PyStrOf(rel_id)]
       IN IF ~IsNone(name)
          THEN PyDict([data |-> PyDict(rel_data @@ [name |-> name])])
          ELSE PyDict([data |-> PyDict(rel_data)])

\* BaseTransformer._create_relationship
Base_create_relationship(rel_type, rel_id, name) ==
  IF IsNone(rel_id) THEN PyDict([data |-> PyNone])
  ELSE LET rel_data == [type |-> rel_type, id |-> PyStrOf(rel_id)]
       IN IF Truthy(name)
          THEN PyDict([data |-> PyDict(rel_data @@ [name |-> name])])
          ELSE PyDict([data |-> PyDict(rel_data)])

\* BaseTransformer._format_datetime: only None is tested; strftime is
\* called on whatever else is given, which an int does not have
Base_format_datetime(dt) ==
  IF IsNone(dt) THEN Returned(PyNone)
  ELSE IF dt.t = "datetime" THEN Returned(PyStr(Strftime(dt.v)))
  ELSE Raised("AttributeError")

\* CompanyTransformer._format_datetime: an int is a Unix timestamp
Company_format_datetime(dt) ==
  IF IsNone(dt) THEN Returned(PyNone)
  ELSE IF dt.t = "int" THEN Returned(PyStr(Strftime(dt.v)))
  ELSE IF dt.t = "datetime" THEN Returned(PyStr(Strftime(dt.v)))
  ELSE Raised("AttributeError")

\* ActivityTransformer._format_datetime: any falsy timestamp is no date
Activity_format_datetime(timestamp) ==
  IF ~Truthy(timestamp) THEN Returned(PyNone)
  ELSE IF timestamp.t \in {"int", "float"}
    THEN Returned(PyStr(Strftime(timestamp.v)))
  ELSE IF timestamp.t = "datetime" THEN Returned(PyStr(Strftime(timestamp.v)))
  ELSE Raised("AttributeError")

(***************************************************************************)
(* More of Python: str.split(), " ".join(), dict literals with optional    *)
(* keys, exceptions of a sequence of steps.                                *)
(***************************************************************************)
EmptyDict == [k \in {} |-> PyNone]

\* s.split(): the words of s between runs of blanks, from position i on,
\* cur being the word read so far
RECURSIVE SplitFrom(_, _, _)
SplitFrom(s, i, cur) ==
  IF i > Len(s) THEN (IF Len(cur) > 0 THEN <<cur>> ELSE << >>)
  ELSE IF s[i] = " "
    THEN (IF Len(cur) > 0 THEN <<cur>> ELSE << >>) \o SplitFrom(s, i + 1, << >>)
    ELSE SplitFrom(s, i + 1, Append(cur, s[i]))

Split(s) == SplitFrom(s, 1, << >>)

\* " ".join(words)
RECURSIVE JoinBlank(_)
JoinBlank(words) ==
  IF Len(words) = 0 THEN << >>
  ELSE IF Len(words) = 1 THEN words[1]
  ELSE words[1] \o <<" ">> \o JoinBlank(Tail(words))

\* sep.join(words)
RECURSIVE Join(_, _)
Join(sep, words) ==
  IF Len(words) = 0 THEN << >>
  ELSE IF Len(words) = 1 THEN words[1]
  ELSE words[1] \o sep \o Join(sep, Tail(words))

\* the exception of the first step that raised one, "" when none did
FirstRaised(steps) ==
  IF \E i \in 1..Len(steps) : steps[i].raised # ""
  THEN steps[CHOOSE i \in 1..Len(steps) :
               /\ steps[i].raised # ""
               /\ \A j \in 1..(i - 1) : steps[j].raised = ""].raised
  ELSE ""

\* the inline relationship with the id left as the number it is
InlineRelationship_RawId(rel_type, rel_id) ==
  PyDict([data |-> PyDict([type |-> PyStr(rel_type), id |-> rel_id])])

\* the relationship object the transformers write inline for a present id
InlineRelationship(rel_type, rel_id) ==
  PyDict([data |-> PyDict([type |-> PyStr(rel_type), id |-> PyStrOf(rel_id)])])

\* the dict an Address object is copied to, component by component
AddressDict(address) ==
  IF Truthy(address)
  THEN PyDict([street |-> address.v.street, city |-> address.v.city,
               state |-> address.v.state,
               postal_code |-> address.v.postal_code,
               country |-> address.v.country])
  ELSE PyNone

\* [{"id": str(field.custom_field_definition_id), "value": field.value} ...]
CustomFieldList(custom_fields) ==
  PyList([i \in 1..Len(custom_fields.v) |->
            PyDict([id |-> PyStrOf(custom_fields.v[i].v.custom_field_definition_id),
                    value |-> custom_fields.v[i].v.value])])

\* [x.model_dump() for x in objects]: each object as the dict of its fields
ModelDumpList(objects) ==
  PyList([i \in 1..Len(objects.v) |-> PyDict(objects.v[i].v)])

(***************************************************************************)
(* PersonTransformer._to_mcp_format                                        *)
(***************************************************************************)
Person_to_mcp_format(data) ==
  LET primary_email ==
        IF Truthy(data.emails)
        THEN Person_get_primary_contact(data.emails, PyStr(sWork))
        ELSE PyNone
      primary_phone ==
        IF Truthy(data.phone_numbers)
        THEN Person_get_primary_contact(data.phone_numbers, PyStr(sWork))
        ELSE PyNone
      words == Split(data.name.v)
      \* (data.first_name or data.name.split()[0]) if data.name else None
      first_name ==
        IF Truthy(data.name)
        THEN IF Truthy(data.first_name) THEN Returned(data.first_name)
             ELSE IF Len(words) > 0 THEN Returned(PyStr(words[1]))
             ELSE Raised("IndexError")
        ELSE Returned(PyNone)
      \* (data.last_name or " ".join(data.name.split()[1:]))
      \*     if data.name and len(data.name.split()) > 1 else None
      last_name ==
        IF Truthy(data.name) /\ Len(words) > 1
        THEN PyOr(data.last_name, PyStr(JoinBlank(Tail(words))))
        ELSE PyNone
      attributes ==
        [name |-> data.name,
         prefix |-> data.prefix,
         first_name |-> first_name.value,
         last_name |-> last_name,
         suffix |-> data.suffix,
         title |-> data.title,
         company_name |-> data.company_name,
         email |-> IF Truthy(primary_email) THEN primary_email.v.email
                   ELSE PyNone,
         phone |-> IF Truthy(primary_phone) THEN primary_phone.v.phone
                   ELSE PyNone,
         socials |-> ModelDumpList(data.socials),
         websites |-> data.websites,
         address |-> AddressDict(data.address),
         details |-> data.details,
         tags |-> data.tags]
      relationships ==
        (IF Truthy(data.company_id)
         THEN [company |-> InlineRelationship(sCompany, data.company_id)]
         ELSE EmptyDict)
        @@ (IF Truthy(data.assignee_id)
            THEN [assignee |-> InlineRelationship(sUser, data.assignee_id)]
            ELSE EmptyDict)
      \* {str(field.custom_field_definition_id): field.value ...}: a dict
      \* keyed by the stringified id
      custom_fields ==
        IF Truthy(data.custom_fields)
        THEN PyDict([k \in {PyStrOf(data.custom_fields.v[i].v.custom_field_definition_id).v :
                              i \in 1..Len(data.custom_fields.v)} |->
                       LET last == CHOOSE i \in 1..Len(data.custom_fields.v) :
                                     /\ PyStrOf(data.custom_fields.v[i].v.custom_field_definition_id).v = k
                                     /\ \A j \in (i + 1)..Len(data.custom_fields.v) :
                                          PyStrOf(data.custom_fields.v[j].v.custom_field_definition_id).v # k
                       IN data.custom_fields.v[last].v.value])
        ELSE PyDict(EmptyDict)
  IN IF first_name.raised # "" THEN Raised(first_name.raised)
     ELSE Returned(PyDict(
            [id |-> IF Truthy(data.id) THEN PyStrOf(data.id) ELSE PyNone,
             type |-> PyStr(sPerson),
             attributes |-> PyDict(attributes),
             relationships |-> PyDict(relationships),
             meta |-> PyDict([custom_fields |-> custom_fields])]))

(***************************************************************************)
(* CompanyTransformer._to_mcp_format                                       *)
(***************************************************************************)
Company_to_mcp_format(data) ==
  LET primary_phone ==
        IF Truthy(data.phone_numbers)
        THEN Company_get_primary_contact(data.phone_numbers, PyStr(sWork))
        ELSE PyNone
      primary_website ==
        IF Truthy(data.websites) THEN data.websites.v[1] ELSE PyNone
      attributes ==
        [name |-> data.name,
         email_domain |-> data.email_domain,
         details |-> data.details,
         industry |-> data.industry,
         annual_revenue |-> data.annual_revenue,
         employee_count |-> data.employee_count,
         status |-> data.status,
         phone |-> IF Truthy(primary_phone) THEN primary_phone.v.phone
                   ELSE PyNone,
         website |-> IF Truthy(primary_website) THEN primary_website
                     ELSE PyNone,
         phone_numbers |->
           PyList([i \in 1..Len(data.phone_numbers.v) |->
                     PyDict([number |-> data.phone_numbers.v[i].v.phone,
                             category |-> data.phone_numbers.v[i].v.category])]),
         socials |->
           PyList([i \in 1..Len(data.socials.v) |->
                     PyDict([url |-> data.socials.v[i].v.url,
                             category |-> data.socials.v[i].v.category])]),
         websites |-> data.websites,
         address |-> AddressDict(data.address),
         tags |-> data.tags]
      created_at == Company_format_datetime(data.date_created)
      updated_at == Company_format_datetime(data.date_modified)
      meta ==
        [custom_fields |->
           IF Truthy(data.custom_fields) THEN CustomFieldList(data.custom_fields)
           ELSE PyList(<< >>),
         interaction_count |-> PyOr(data.interaction_count, PyInt(0)),
         created_at |-> created_at.value,
         updated_at |-> updated_at.value]
      relationships ==
        (IF Truthy(data.assignee_id)
         THEN [assignee |-> InlineRelationship(sUser, data.assignee_id)]
         ELSE EmptyDict)
        @@ (IF Truthy(data.primary_contact_id)
            THEN [primary_contact |->
                    InlineRelationship(sPerson, data.primary_contact_id)]
            ELSE EmptyDict)
      failed == FirstRaised(<<created_at, updated_at>>)
  IN IF failed # "" THEN Raised(failed)
     ELSE Returned(PyDict(
            [type |-> PyStr(sCompany),
             attributes |-> PyDict(attributes),
             relationships |-> PyDict(relationships),
             meta |-> PyDict(meta)]))

(***************************************************************************)
(* OpportunityTransformer._to_mcp_format                                   *)
(***************************************************************************)
Opportunity_to_mcp_format(data) ==
  LET attributes ==
        [name |-> data.name,
         status |-> data.status,
         pipeline_id |-> PyStrOf(data.pipeline_id),
         pipeline_stage_id |-> PyStrOf(data.pipeline_stage_id),
         details |-> data.details,
         monetary_value |-> data.monetary_value,
         win_probability |-> data.win_probability,
         close_date |-> data.close_date]
      relationships ==
        (IF Truthy(data.company_id)
         THEN [company |-> InlineRelationship(sCompany, data.company_id)]
         ELSE EmptyDict)
        @@ (IF Truthy(data.primary_contact_id)
            THEN [primary_contact |->
                    InlineRelationship(sPerson, data.primary_contact_id)]
            ELSE EmptyDict)
        @@ (IF Truthy(data.assignee_id)
            THEN [assignee |-> InlineRelationship(sUser, data.assignee_id)]
            ELSE EmptyDict)
      custom_fields ==
        IF Truthy(data.custom_fields) THEN CustomFieldList(data.custom_fields)
        ELSE PyList(<< >>)
  IN Returned(PyDict(
       [type |-> PyStr(sOpportunity),
        attributes |-> PyDict(attributes),
        relationships |-> PyDict(relationships),
        meta |-> PyDict([custom_fields |-> custom_fields])]))

(***************************************************************************)
(* ActivityTransformer._to_mcp_format.  Activity.parent is declared        *)
(* Dict[str, str]: a non-empty parent is a dict, and data.parent.type      *)
(* reads an attribute a dict does not have.  ActivityTransformer has no    *)
(* __init__ of its own, so self.entity_type is the one of                  *)
(* BaseTransformer.__init__: the default of MCPActivity's field `type`,    *)
(* which has none.                                                         *)
(***************************************************************************)
Activity_entity_type == PydanticUndefined

Activity_to_mcp_format(data) ==
  LET attributes ==
        [details |-> data.details,
         activity_type |-> IF Truthy(data.type) THEN data.type.v.category
                           ELSE PyNone,
         activity_date |-> data.activity_date]
      \* if data.parent: ... data.parent.type ...
      parent ==
        IF Truthy(data.parent) THEN Raised("AttributeError")
        ELSE Returned(EmptyDict)
      relationships ==
        parent.value
        @@ (IF Truthy(data.assignee_id)
            THEN [assignee |-> InlineRelationship(sUser, data.assignee_id)]
            ELSE EmptyDict)
      custom_fields ==
        IF Truthy(data.custom_fields) THEN CustomFieldList(data.custom_fields)
        ELSE PyList(<< >>)
  IN IF parent.raised # "" THEN Raised(parent.raised)
     ELSE Returned(PyDict(
            [type |-> Activity_entity_type,
             attributes |-> PyDict(attributes),
             relationships |-> PyDict(relationships),
             meta |-> PyDict([custom_fields |-> custom_fields])]))

(***************************************************************************)
(* TaskTransformer._to_mcp_format.  Task.related_resource is a dict and    *)
(* Task.custom_fields a list of dicts: reading .type of the one or         *)
(* .custom_field_definition_id of the other raises AttributeError.         *)
(***************************************************************************)
Task_to_mcp_format(data) ==
  LET attributes ==
        [name |-> data.name,
         details |-> data.details,
         status |-> data.status,
         priority |-> data.priority,
         due_date |-> data.due_date,
         reminder_date |-> data.reminder_date,
         completed_date |-> data.completed_date]
      \* if data.related_resource: ... data.related_resource.type ...
      related_resource ==
        IF Truthy(data.related_resource) THEN Raised("AttributeError")
        ELSE Returned(EmptyDict)
      relationships ==
        related_resource.value
        @@ (IF Truthy(data.assignee_id)
            THEN [assignee |-> InlineRelationship(sUser, data.assignee_id)]
            ELSE EmptyDict)
      \* if data.custom_fields: ... field.custom_field_definition_id ...
      custom_fields ==
        IF Truthy(data.custom_fields) THEN Raised("AttributeError")
        ELSE Returned(PyList(<< >>))
      failed == FirstRaised(<<related_resource, custom_fields>>)
  IN IF failed # "" THEN Raised(failed)
     ELSE Returned(PyDict(
            [type |-> PyStr(sTask),
             id |-> IF Truthy(data.id) THEN PyStrOf(data.id)
                    ELSE PyStr(<<"0">>),
             attributes |-> PyDict(attributes),
             relationships |-> PyDict(relationships),
             meta |-> PyDict([custom_fields |-> custom_fields.value])]))

\* _to_mcp_format of the transformer `k`
ToMcpFormatOf(k, data) ==
  CASE k = "person" -> Person_to_mcp_format(data)
    [] k = "company" -> Company_to_mcp_format(data)
    [] k = "opportunity" -> Opportunity_to_mcp_format(data)
    [] k = "activity" -> Activity_to_mcp_format(data)
    [] OTHER -> Task_to_mcp_format(data)

(***************************************************************************)
(* The MCP schemas of app/models/mcp.py as pydantic checks and dumps them. *)
(***************************************************************************)
\* the declared attribute fields of each MCP model, with their types
MCPAttributesFields ==
  [name |-> "str", details |-> "str", tags |-> "list_str",
   created_at |-> "str", updated_at |-> "str"]

MCPPersonAttributesFields ==
  MCPAttributesFields
  @@ [first_name |-> "str", last_name |-> "str", email |-> "str",
      phone |-> "str", title |-> "str", company |-> "str",
      address |-> "dict_str_str"]

MCPCompanyAttributesFields ==
  MCPAttributesFields
  @@ [phone |-> "str", website |-> "str", industry |-> "str",
      email_domain |-> "str", annual_revenue |-> "float",
      employee_count |-> "int"]

MCPOpportunityAttributesFields ==
  MCPAttributesFields
  @@ [status |-> "str", priority |-> "str", monetary_value |-> "float",
      win_probability |-> "float", close_date |-> "str"]

MCPActivityAttributesFields ==
  MCPAttributesFields
  @@ [activity_type |-> "required_dict_str_str", activity_date |-> "str"]

AttributesFieldsOf(k) ==
  CASE k = "person" -> MCPPersonAttributesFields
    [] k = "company" -> MCPCompanyAttributesFields
    [] k = "opportunity" -> MCPOpportunityAttributesFields
    [] OTHER -> MCPActivityAttributesFields

\* the type literal of each MCP model
TypeLiteral(k) ==
  CASE k = "person" -> sPerson
    [] k = "company" -> sCompany
    [] k = "opportunity" -> sOpportunity
    [] k = "activity" -> <<"a", "c", "t", "i", "v", "i", "t", "y">>
    [] OTHER -> sTask

IsDictOfStr(x) == x.t = "dict" /\ \A key \in DOMAIN x.v : x.v[key].t = "str"

\* whether pydantic accepts x for a field of type ty: a str field takes
\* only a str, a float field an int or a float, a dict field only a dict
FieldAccepts(ty, x) ==
  CASE ty = "str" -> IsNone(x) \/ x.t = "str"
    [] ty = "float" -> IsNone(x) \/ x.t \in {"int", "float"}
    [] ty = "int" -> IsNone(x) \/ x.t = "int"
    [] ty = "list_str" ->
         IsNone(x) \/ (x.t = "list" /\ \A i \in 1..Len(x.v) : x.v[i].t = "str")
    [] ty = "dict_str_str" -> IsNone(x) \/ IsDictOfStr(x)
    [] OTHER -> IsDictOfStr(x)

\* MCPRelationship: data is null or {type: str, id: str, name: str | null}
RelationshipAccepted(r) ==
  /\ r.t = "dict"
  /\ \/ ~HasKey(r, "data")
     \/ IsNone(r.v["data"])
     \/ /\ r.v["data"].t = "dict"
        /\ HasKey(r.v["data"], "type") /\ r.v["data"].v["type"].t = "str"
        /\ HasKey(r.v["data"], "id") /\ r.v["data"].v["id"].t = "str"
        /\ FieldAccepts("str", DictGet(r.v["data"], "name"))

\* MCPMeta: custom_fields is a Dict[str, Any], interaction_count an int
MetaAccepted(meta) ==
  /\ meta.t = "dict"
  /\ HasKey(meta, "custom_fields") => meta.v["custom_fields"].t = "dict"
  /\ FieldAccepts("int", DictGet(meta, "interaction_count"))

\* mcp_model.model_validate(mcp_data) succeeds
MCPAccepted(k, mcp_data) ==
  LET fields == AttributesFieldsOf(k)
      attributes == mcp_data.v["attributes"]
  IN /\ FieldAccepts("str", DictGet(mcp_data, "id"))
     /\ mcp_data.v["type"] = PyStr(TypeLiteral(k))
     /\ mcp_data.v["source"].t = "str"
     /\ mcp_data.v["source_id"].t = "str"
     /\ attributes.t = "dict"
     /\ \A f \in DOMAIN fields :
          IF HasKey(attributes, f) THEN FieldAccepts(fields[f], attributes.v[f])
          ELSE fields[f] # "required_dict_str_str"
     /\ mcp_data.v["relationships"].t = "dict"
     /\ \A n \in DOMAIN mcp_data.v["relationships"].v :
          RelationshipAccepted(mcp_data.v["relationships"].v[n])
     /\ MetaAccepted(mcp_data.v["meta"])

\* the value of a validated field: an int given to a float field is a float
Coerced(ty, x) == IF ty = "float" /\ x.t = "int" THEN PyFloat(x.v) ELSE x

\* the validated value of attribute f: the one given, else the default
AttributeValue(fields, attributes, f) ==
  IF HasKey(attributes, f) THEN Coerced(fields[f], attributes.v[f])
  ELSE IF f = "tags" THEN PyList(<< >>)
  ELSE PyNone

\* model_dump(exclude_none=True) of one relationship
RelationshipDump(r) ==
  IF HasKey(r, "data") /\ ~IsNone(r.v["data"])
  THEN PyDict([data |->
         PyDict([f \in {g \in DOMAIN r.v["data"].v :
                          /\ g \in {"type", "id", "name"}
                          /\ ~IsNone(r.v["data"].v[g])} |->
                   r.v["data"].v[f]])])
  ELSE PyDict(EmptyDict)

\* model_dump(exclude_none=True) of the validated MCP model: the declared
\* fields that are not None, the undeclared ones dropped
MCPDump(k, mcp_data) ==
  LET fields == AttributesFieldsOf(k)
      attributes == mcp_data.v["attributes"]
      meta == mcp_data.v["meta"]
      interaction_count ==
        IF HasKey(meta, "interaction_count") THEN meta.v["interaction_count"]
        ELSE PyInt(0)
  IN PyDict(
       (IF IsNone(DictGet(mcp_data, "id")) THEN EmptyDict
        ELSE [id |-> mcp_data.v["id"]])
       @@ [type |-> mcp_data.v["type"],
           source |-> mcp_data.v["source"],
           source_id |-> mcp_data.v["source_id"],
           attributes |->
             PyDict([f \in {g \in DOMAIN fields :
                              ~IsNone(AttributeValue(fields, attributes, g))} |->
                       AttributeValue(fields, attributes, f)]),
           relationships |->
             PyDict([n \in DOMAIN mcp_data.v["relationships"].v |->
                       RelationshipDump(mcp_data.v["relationships"].v[n])]),
           meta |->
             PyDict([custom_fields |->
                       DictGetDefault(meta, "custom_fields", PyDict(EmptyDict))]
                    @@ (IF IsNone(interaction_count) THEN EmptyDict
                        ELSE [interaction_count |-> interaction_count]))])

(***************************************************************************)
(* BaseTransformer.to_mcp                                                  *)
(***************************************************************************)
\* the fields pydantic parses to a datetime in the Copper model `k`
DatetimeFields(k) ==
  CASE k \in {"person", "company"} -> {"date_created", "date_modified"}
    [] k = "opportunity" -> {"date_created", "date_modified", "close_date"}
    [] OTHER -> {}

\* the fields the Copper model `k` declares without a default, with the
\* type each must have
RequiredFields(k) ==
  CASE k \in {"person", "company", "task"} -> [name |-> "str"]
    [] k = "opportunity" -> [name |-> "str", status |-> "str"]
    [] OTHER -> [type |-> "object", activity_date |-> "int",
                 user_id |-> "str", parent |-> "dict"]

\* the fields declared with default_factory=list
ListFields ==
  {"emails", "phone_numbers", "socials", "websites", "tags", "custom_fields"}

\* the fields for which copper_model.model_validate(data) reports an error:
\* a required field that is missing or not of its type, and an
\* Opportunity.win_probability outside ge=0, le=100
CopperRejectedFields(k, data) ==
  {f \in DOMAIN RequiredFields(k) : data[f].t # RequiredFields(k)[f]}
  \cup (IF /\ k = "opportunity"
            /\ data.win_probability.t \in {"int", "float"}
            /\ (data.win_probability.v < 0 \/ data.win_probability.v > 100)
         THEN {"win_probability"} ELSE {})

\* a validation that lets every field be optional
CopperAccepted_NothingRequired(k, data) ==
  CopperRejectedFields(k, data) \subseteq DOMAIN RequiredFields(k)

\* copper_model.model_validate(data) raises no ValidationError
CopperAccepted(k, data) == CopperRejectedFields(k, data) = {}

\* copper_model.model_validate(data) of a schema-valid record: a Unix
\* timestamp in a datetime field becomes that instant, in UTC, and a
\* missing optional field gets its default
ModelValidate(k, data) ==
  [f \in DOMAIN data |->
     IF f \in DatetimeFields(k) /\ data[f].t = "int" THEN PyDatetime(data[f].v)
     ELSE IF data[f] = Missing
       THEN (IF f \in ListFields /\ k # "task" THEN PyList(<< >>) ELSE PyNone)
     ELSE data[f]]

\* self._format_datetime of the transformer `k`
FormatDatetimeOf(k, dt) ==
  CASE k = "company" -> Company_format_datetime(dt)
    [] k = "activity" -> Activity_format_datetime(dt)
    [] OTHER -> Base_format_datetime(dt)

\* app/mapping/task.py imports MCPTask from app.models.mcp, which does not
\* define it: a TaskTransformer cannot be had, and its to_mcp ends in the
\* ImportError of the module
HasMCPModel(k) == k # "task"

Base_to_mcp(k, data) ==
  LET validated_data == ModelValidate(k, data)
      \* hasattr(validated_data, "date_created") / "date_modified"
      created_at ==
        IF "date_created" \in DOMAIN validated_data
        THEN FormatDatetimeOf(k, validated_data.date_created)
        ELSE Returned(PyNone)
      updated_at ==
        IF "date_modified" \in DOMAIN validated_data
        THEN FormatDatetimeOf(k, validated_data.date_modified)
        ELSE Returned(PyNone)
      \* mcp_data["attributes"] with the timestamps
      Attributes(mcp_data) ==
        (IF "date_created" \in DOMAIN validated_data
         THEN [created_at |-> created_at.value] ELSE EmptyDict)
        @@ (IF "date_modified" \in DOMAIN validated_data
            THEN [updated_at |-> updated_at.value] ELSE EmptyDict)
        @@ mcp_data.v["attributes"].v
      \* mcp_data.update({...})
      Updated(mcp_data) ==
        PyDict([source |-> PyStr(sCopper),
                source_id |-> PyStrOf(validated_data.id),
                attributes |-> PyDict(Attributes(mcp_data))]
               @@ mcp_data.v)
      \* self.mcp_model.model_validate(mcp_data).model_dump(exclude_none=True)
      Dumped(mcp_data) ==
        IF ~MCPAccepted(k, mcp_data) THEN Raised("ValidationError")
        ELSE Returned(MCPDump(k, mcp_data))
      \* the steps after _to_mcp_format
      Completed(formatted) ==
        IF FirstRaised(<<formatted, created_at, updated_at>>) # ""
        THEN Raised(FirstRaised(<<formatted, created_at, updated_at>>))
        ELSE Dumped(Updated(formatted.value))
  IN IF ~HasMCPModel(k) THEN Raised("ImportError")
     ELSE IF ~CopperAccepted(k, data) THEN Raised("ValidationError")
     ELSE Completed(ToMcpFormatOf(k, validated_data))

(***************************************************************************)
(* The reverse transformers, _to_copper_format.  They read the envelope    *)
(* with data.attributes.get(...), `in data.relationships` and              *)
(* data.meta[...]: the envelope is an object whose attributes,             *)
(* relationships and meta are dicts, such as the forward output held       *)
(* unvalidated.                                                            *)
(***************************************************************************)
\* x[key] of a dict x, a TypeError when x is None or a str
Subscript(x, key) ==
  IF x.t = "dict"
  THEN IF HasKey(x, key) THEN Returned(x.v[key]) ELSE Raised("KeyError")
  ELSE Raised("TypeError")

\* int(data.relationships[name]["data"]["id"])
RelationshipId(relationships, name) ==
  LET rel == Subscript(relationships, name)
      rel_data == IF rel.raised = "" THEN Subscript(rel.value, "data") ELSE rel
      rel_id == IF rel_data.raised = "" THEN Subscript(rel_data.value, "id")
                ELSE rel_data
  IN IF rel_id.raised = "" THEN PyIntOf(rel_id.value) ELSE rel_id

\* the FK of the payload with an absent relationship written as null
RelationshipField_NullWhenAbsent(relationships, name, field) ==
  IF HasKey(relationships, name)
  THEN LET rel_id == RelationshipId(relationships, name)
       IN IF rel_id.raised = "" THEN Returned([f \in {field} |-> rel_id.value])
          ELSE rel_id
  ELSE Returned([f \in {field} |-> PyNone])

\* the FK of the payload: {field: int(...)} if name in data.relationships
RelationshipField(relationships, name, field) ==
  IF HasKey(relationships, name)
  THEN LET rel_id == RelationshipId(relationships, name)
       IN IF rel_id.raised = "" THEN Returned([f \in {field} |-> rel_id.value])
          ELSE rel_id
  ELSE Returned(EmptyDict)

\* {field: {"type": data["type"], "id": int(data["id"])}} for the parent of
\* an activity and the related resource of a task
TypedRelationshipField(relationships, name, field) ==
  IF HasKey(relationships, name)
  THEN LET rel == Subscript(relationships.v[name], "data")
           rel_type == IF rel.raised = "" THEN Subscript(rel.value, "type")
                       ELSE rel
           rel_id == IF rel_type.raised = "" THEN Subscript(rel.value, "id")
                     ELSE rel_type
           id == IF rel_id.raised = "" THEN PyIntOf(rel_id.value) ELSE rel_id
       IN IF id.raised = ""
          THEN Returned([f \in {field} |->
                           PyDict([type |-> rel_type.value, id |-> id.value])])
          ELSE id
  ELSE Returned(EmptyDict)

\* the keys of a dict in a fixed order, as iterating the dict yields them
RECURSIVE KeysOf(_)
KeysOf(keys) ==
  IF keys = {} THEN << >>
  ELSE LET k == CHOOSE x \in keys : TRUE
       IN <<PyStr(k)>> \o KeysOf(keys \ {k})

\* one {"custom_field_definition_id": int(field["id"]), "value": ...}
ReverseCustomField(field) ==
  LET id == Subscript(field, "id")
      n == IF id.raised = "" THEN PyIntOf(id.value) ELSE id
      value == IF n.raised = "" THEN Subscript(field, "value") ELSE n
  IN IF value.raised = ""
     THEN Returned(PyDict([custom_field_definition_id |-> n.value,
                           value |-> value.value]))
     ELSE value

\* if data.meta and "custom_fields" in data.meta: the list built from it;
\* iterating a dict yields its keys, which are strs
ReverseCustomFields(meta) ==
  IF Truthy(meta) /\ HasKey(meta, "custom_fields")
  THEN LET given == meta.v["custom_fields"]
           fields == IF given.t = "dict" THEN KeysOf(DOMAIN given.v)
                     ELSE given.v
           each == [i \in 1..Len(fields) |-> ReverseCustomField(fields[i])]
           failed == FirstRaised(each)
       IN IF failed # "" THEN Raised(failed)
          ELSE Returned([custom_fields |->
                           PyList([i \in 1..Len(fields) |-> each[i].value])])
  ELSE Returned(EmptyDict)

\* [{"number": phone["number"], "category": phone["category"]} ...] and the
\* same with "url" for the socials
ReverseContacts(attributes, name, key) ==
  LET given == DictGetDefault(attributes, name, PyList(<< >>))
      each == [i \in 1..Len(given.v) |->
                 LET first == Subscript(given.v[i], key)
                     category == IF first.raised = ""
                                 THEN Subscript(given.v[i], "category")
                                 ELSE first
                 IN IF category.raised = ""
                    THEN Returned(PyDict([f \in {key, "category"} |->
                                            IF f = key THEN first.value
                                            ELSE category.value]))
                    ELSE category]
      failed == FirstRaised(each)
  IN IF failed # "" THEN Raised(failed)
     ELSE Returned(PyList([i \in 1..Len(given.v) |-> each[i].value]))

\* the payload of the steps of a reverse transformer, in the order the
\* code runs them, or the exception of the first that raised
Payload(always, steps) ==
  LET failed == FirstRaised(steps)
      RECURSIVE Merge(_)
      Merge(i) == IF i > Len(steps) THEN EmptyDict
                  ELSE steps[i].value @@ Merge(i + 1)
  IN IF failed # "" THEN Raised(failed)
     ELSE Returned(PyDict(always @@ Merge(1)))

\* PersonTransformer._to_copper_format
Person_to_copper_format(data) ==
  LET attributes == data.v["attributes"]
      relationships == data.v["relationships"]
      phone_numbers == ReverseContacts(attributes, "phone_numbers", "number")
      socials == ReverseContacts(attributes, "socials", "url")
  IN Payload(
       [name |-> DictGet(attributes, "name"),
        email |-> DictGet(attributes, "email"),
        details |-> DictGet(attributes, "details"),
        phone_numbers |-> phone_numbers.value,
        socials |-> socials.value,
        websites |-> DictGetDefault(attributes, "websites", PyList(<< >>))],
       <<[phone_numbers EXCEPT !.value = EmptyDict],
         [socials EXCEPT !.value = EmptyDict],
         RelationshipField(relationships, "company", "company_id"),
         RelationshipField(relationships, "assignee", "assignee_id"),
         ReverseCustomFields(data.v["meta"])>>)

\* Address(**address_data).dict(exclude_none=True)
AddressPayload(address_data) ==
  PyDict([f \in {g \in DOMAIN address_data.v :
                   /\ g \in {"street", "city", "state", "postal_code", "country"}
                   /\ ~IsNone(address_data.v[g])} |->
            address_data.v[f]])

\* CompanyTransformer._to_copper_format
Company_to_copper_format(data) ==
  LET attributes == data.v["attributes"]
      relationships == data.v["relationships"]
      phone_numbers == ReverseContacts(attributes, "phone_numbers", "number")
      socials == ReverseContacts(attributes, "socials", "url")
      address_data == DictGet(attributes, "address")
  IN Payload(
       [name |-> DictGet(attributes, "name"),
        email_domain |-> DictGet(attributes, "email_domain"),
        details |-> DictGet(attributes, "details"),
        industry |-> DictGet(attributes, "industry"),
        annual_revenue |-> DictGet(attributes, "annual_revenue"),
        employee_count |-> DictGet(attributes, "employee_count"),
        status |-> DictGet(attributes, "status"),
        phone_numbers |-> phone_numbers.value,
        socials |-> socials.value,
        websites |-> DictGetDefault(attributes, "websites", PyList(<< >>))],
       <<[phone_numbers EXCEPT !.value = EmptyDict],
         [socials EXCEPT !.value = EmptyDict],
         IF Truthy(address_data)
         THEN Returned([address |-> AddressPayload(address_data)])
         ELSE Returned(EmptyDict),
         RelationshipField(relationships, "assignee", "assignee_id"),
         RelationshipField(relationships, "primary_contact",
                           "primary_contact_id"),
         ReverseCustomFields(data.v["meta"]),
         IF HasKey(attributes, "tags")
         THEN Returned([tags |-> attributes.v["tags"]])
         ELSE Returned(EmptyDict)>>)

\* OpportunityTransformer._to_copper_format
Opportunity_to_copper_format(data) ==
  LET attributes == data.v["attributes"]
      relationships == data.v["relationships"]
      pipeline_id == PyIntOf(DictGet(attributes, "pipeline_id"))
      pipeline_stage_id == PyIntOf(DictGet(attributes, "pipeline_stage_id"))
  IN Payload(
       [name |-> DictGet(attributes, "name"),
        status |-> DictGet(attributes, "status"),
        pipeline_id |-> pipeline_id.value,
        pipeline_stage_id |-> pipeline_stage_id.value,
        details |-> DictGet(attributes, "details"),
        monetary_value |-> DictGet(attributes, "monetary_value"),
        win_probability |-> DictGet(attributes, "win_probability"),
        close_date |-> DictGet(attributes, "close_date")],
       <<[pipeline_id EXCEPT !.value = EmptyDict],
         [pipeline_stage_id EXCEPT !.value = EmptyDict],
         RelationshipField(relationships, "company", "company_id"),
         RelationshipField(relationships, "primary_contact",
                           "primary_contact_id"),
         RelationshipField(relationships, "assignee", "assignee_id"),
         ReverseCustomFields(data.v["meta"])>>)

\* ActivityTransformer._to_copper_format
Activity_to_copper_format(data) ==
  LET attributes == data.v["attributes"]
      relationships == data.v["relationships"]
  IN Payload(
       [details |-> DictGet(attributes, "details"),
        type |-> PyDict([category |-> DictGet(attributes, "activity_type"),
                         id |-> PyStr(<<"1", "2", "3">>)]),
        activity_date |-> DictGet(attributes, "activity_date")],
       <<TypedRelationshipField(relationships, "parent", "parent"),
         RelationshipField(relationships, "assignee", "assignee_id"),
         ReverseCustomFields(data.v["meta"])>>)

\* TaskTransformer._to_copper_format
Task_to_copper_format(data) ==
  LET attributes == data.v["attributes"]
      relationships == data.v["relationships"]
  IN Payload(
       [name |-> DictGet(attributes, "name"),
        details |-> DictGet(attributes, "details"),
        status |-> DictGet(attributes, "status"),
        priority |-> DictGet(attributes, "priority"),
        due_date |-> DictGet(attributes, "due_date"),
        reminder_date |-> DictGet(attributes, "reminder_date"),
        completed_date |-> DictGet(attributes, "completed_date")],
       <<TypedRelationshipField(relationships, "related_resource",
                                "related_resource"),
         RelationshipField(relationships, "assignee", "assignee_id"),
         ReverseCustomFields(data.v["meta"])>>)

\* _to_copper_format of the transformer `k`
ToCopperFormatOf(k, data) ==
  CASE k = "person" -> Person_to_copper_format(data)
    [] k = "company" -> Company_to_copper_format(data)
    [] k = "opportunity" -> Opportunity_to_copper_format(data)
    [] k = "activity" -> Activity_to_copper_format(data)
    [] OTHER -> Task_to_copper_format(data)

(***************************************************************************)
(* The arguments the requests are drawn from.                              *)
(***************************************************************************)
Categories == {sWork, sWorkCap, <<"W", "O", "R", "K">>, sHome}

\* the value of the contact at position i
ContactValue(i) == <<"v", Digits[i + 1]>>

CategoryLists == UNION {[1..n -> Categories] : n \in 0..MaxContacts}

\* contacts as the dicts the base selector reads
DictContacts(cats) ==
  PyList([i \in 1..Len(cats) |->
            PyDict([category |-> PyStr(cats[i]),
                    value |-> PyStr(ContactValue(i))])])

\* contacts as the EmailPhone objects the Person and Company selectors read
EmailContacts(cats) ==
  PyList([i \in 1..Len(cats) |->
            PyObj([category |-> PyStr(cats[i]),
                   email |-> PyStr(ContactValue(i)),
                   phone |-> PyNone])])

PhoneContacts(cats) ==
  PyList([i \in 1..Len(cats) |->
            PyObj([category |-> PyStr(cats[i]),
                   email |-> PyNone,
                   phone |-> PyStr(ContactValue(i))])])

\* Unix timestamps: the epoch, the last second of its first day, the
\* second day, a leap day and the timestamp of the spec's scenario
Timestamps == {0, 86399, 86400, 951782400, 1234567890}

(***************************************************************************)
(* CRM records, as the Copper models of app/models/copper.py hold them.    *)
(***************************************************************************)
sAlYu == <<"A", "l", " ", "Y", "u">>
sCy == <<"C", "y">>
sDeal == <<"D", "e", "a", "l">>
sNote == <<"n", "o", "t", "e">>

\* an optional integer id: none, zero, a one-digit and the largest id
OptIds == {PyNone, PyInt(0), PyInt(7), PyInt(MaxId)}
PresentIds == {PyInt(7), PyInt(MaxId)}

\* an optional Unix timestamp
OptDates == {PyNone, PyInt(0), PyInt(1234567890)}

CustomField(id, value) ==
  PyObj([custom_field_definition_id |-> PyInt(id), value |-> value])

CustomFieldLists ==
  {PyList(<< >>),
   PyList(<<CustomField(1, PyStr(sNote))>>),
   PyList(<<CustomField(1, PyStr(sNote)), CustomField(MaxId, PyInt(5))>>)}

Address(street, city) ==
  PyObj([street |-> street, city |-> city, state |-> PyStr(sCy),
         postal_code |-> PyStr(<<"1">>), country |-> PyStr(<<"A", "l">>)])

Addresses ==
  {PyNone, Address(PyStr(<<"A", "c", "m", "e">>), PyStr(sCy)), Address(PyNone, PyStr(sCy))}

ContactLists ==
  {EmailContacts(c) : c \in {<< >>, <<sHome, sWork>>, <<sWorkCap>>}}

PhoneLists ==
  {PhoneContacts(c) : c \in {<< >>, <<sHome, sWork>>, <<sWorkCap>>}}

Person ==
  [id |-> PyInt(7), name |-> PyStr(sAlYu), prefix |-> PyNone,
   first_name |-> PyNone, last_name |-> PyNone, suffix |-> PyNone,
   title |-> PyNone, company_name |-> PyNone, company_id |-> PyNone,
   emails |-> PyList(<< >>), phone_numbers |-> PyList(<< >>),
   socials |-> PyList(<< >>), websites |-> PyList(<< >>),
   address |-> PyNone, assignee_id |-> PyNone, contact_type_id |-> PyNone,
   details |-> PyNone, tags |-> PyList(<< >>),
   custom_fields |-> PyList(<< >>), date_created |-> PyNone,
   date_modified |-> PyNone, interaction_count |-> PyNone]

Company ==
  [id |-> PyInt(7), name |-> PyStr(<<"A", "c", "m", "e">>), assignee_id |-> PyNone,
   address |-> PyNone, phone_numbers |-> PyList(<< >>),
   socials |-> PyList(<< >>), websites |-> PyList(<< >>),
   email_domain |-> PyNone, details |-> PyNone, tags |-> PyList(<< >>),
   custom_fields |-> PyList(<< >>), industry |-> PyNone,
   annual_revenue |-> PyNone, employee_count |-> PyNone,
   date_created |-> PyNone, date_modified |-> PyNone,
   interaction_count |-> PyNone, primary_contact_id |-> PyNone,
   status |-> PyNone]

Opportunity ==
  [id |-> PyInt(7), name |-> PyStr(sDeal), assignee_id |-> PyNone,
   company_id |-> PyNone, company_name |-> PyNone,
   primary_contact_id |-> PyNone, status |-> PyStr(<<"o", "p", "e", "n">>),
   priority |-> PyNone, pipeline_id |-> PyNone,
   pipeline_stage_id |-> PyNone, monetary_value |-> PyNone,
   win_probability |-> PyNone, close_date |-> PyNone, details |-> PyNone,
   tags |-> PyList(<< >>), custom_fields |-> PyList(<< >>),
   date_created |-> PyNone, date_modified |-> PyNone,
   interaction_count |-> PyNone]

\* Activity: the ids are strs, the parent a Dict[str, str]
Activity ==
  [id |-> PyStr(<<"7">>),
   type |-> PyObj([id |-> PyStr(<<"1">>), category |-> PyStr(sUser),
                   name |-> PyStr(sNote)]),
   details |-> PyNone, activity_date |-> PyInt(1234567890),
   user_id |-> PyStr(<<"7">>), parent |-> PyDict(EmptyDict),
   assignee_id |-> PyNone, custom_fields |-> PyList(<< >>),
   created_at |-> PyNone, updated_at |-> PyNone]

\* Task: the dates are ints, the related resource a dict and the custom
\* fields dicts
Task ==
  [id |-> PyInt(7), name |-> PyStr(sDeal), related_resource |-> PyNone,
   assignee_id |-> PyNone, due_date |-> PyNone, reminder_date |-> PyNone,
   completed_date |-> PyNone, priority |-> PyNone, status |-> PyNone,
   details |-> PyNone, tags |-> PyNone, custom_fields |-> PyNone,
   date_created |-> PyNone, date_modified |-> PyNone]

EntityKinds == {"person", "company", "opportunity", "activity", "task"}

(***************************************************************************)
(* Envelopes handed to the reverse transformers directly: every            *)
(* relationship absent, null or populated, the meta with and without       *)
(* custom fields.                                                          *)
(***************************************************************************)
RelationshipNames(k) ==
  CASE k = "person" -> {"company", "assignee"}
    [] k = "company" -> {"assignee", "primary_contact"}
    [] k = "opportunity" -> {"company", "primary_contact", "assignee"}
    [] k = "activity" -> {"parent", "assignee"}
    [] OTHER -> {"related_resource", "assignee"}

\* what a relationship name maps to when it is a key of relationships
RelationshipValues ==
  {PyDict([data |-> PyNone]),
   PyDict([data |-> PyDict([type |-> PyStr(sUser), id |-> PyStr(<<"7">>)])]),
   PyDict([data |-> PyDict([type |-> PyStr(sPerson),
                            id |-> PyStr(IntToStr(MaxId))])])}

RelationshipDicts(k) ==
  UNION {[names -> RelationshipValues] : names \in SUBSET RelationshipNames(k)}

Metas ==
  {PyDict(EmptyDict),
   PyDict([custom_fields |-> PyList(<< >>)]),
   PyDict([custom_fields |->
             PyList(<<PyDict([id |-> PyStr(<<"1">>), value |-> PyStr(sNote)])>>)]),
   PyDict([custom_fields |-> PyDict([k \in {"1"} |-> PyStr(sNote)])])}

EnvelopeAttributes(k) ==
  {PyDict(EmptyDict),
   PyDict([name |-> PyStr(sDeal), details |-> PyStr(sNote),
           pipeline_id |-> PyStr(<<"7">>), pipeline_stage_id |-> PyStr(<<"7">>),
           activity_type |-> PyStr(sUser)]),
   PyDict([name |-> PyStr(sEmpty), pipeline_id |-> PyStr(<<"7">>),
           pipeline_stage_id |-> PyStr(<<"7">>)]),
   PyDict([name |-> PyStr(sDeal), pipeline_stage_id |-> PyStr(<<"7">>)])}

Envelopes(k) ==
  {PyDict([type |-> PyStr(TypeLiteral(k)), attributes |-> at,
           relationships |-> PyDict(re), meta |-> me]) :
     at \in EnvelopeAttributes(k), re \in RelationshipDicts(k), me \in Metas}

(***************************************************************************)
(* The HTTP endpoints of app/main.py and the Copper API they call.         *)
(***************************************************************************)
MAX_RETRIES == 3

\* raise HTTPException(status_code=...)
HTTPException(status_code) ==
  [raised |-> "HTTPException", value |-> PyInt(status_code)]

\* "404" in s
Contains404(s) ==
  \E i \in 1..(Len(s) - 2) : SubSeq(s, i, i + 2) = <<"4", "0", "4">>

\* CopperClient.__init__: self.max_retries = max_retries or self.MAX_RETRIES
CopperClient_init(max_retries) ==
  IF Truthy(max_retries) THEN max_retries.v ELSE MAX_RETRIES

\* CopperClient._request of a client whose self.max_retries is max_retries:
\* `upstream` lists the responses of the Copper API to the attempts, the
\* last one standing for every later attempt; a response of status 0 is an
\* aiohttp.ClientError; message is str(response_data), or response.reason
\* when the body is not JSON; attempts counts the calls of session.request
RECURSIVE CopperClient_request(_, _, _)
\* a client that gives up at the first failure
CopperClient_request_NoRetry(max_retries, upstream, retry_count) ==
  LET response == Head(upstream)
  IN IF response.status = 0
       THEN [raised |-> "CopperAPIError",
             value |-> PyStr(<<"R", "e", "q", "u", "e", "s", "t", " ", "f", "a", "i", "l", "e", "d", " ", "a", "f", "t", "e", "r", " ">>
                             \o IntToStr(retry_count)
                             \o <<" ", "r", "e", "t", "r", "i", "e", "s", ":", " ">>
                             \o response.message),
             status_code |-> PyNone, attempts |-> 1]
     ELSE IF response.status >= 400
       THEN [raised |-> "CopperAPIError", value |-> PyStr(response.message),
             status_code |-> PyInt(response.status), attempts |-> 1]
     ELSE [raised |-> "", value |-> response.data,
           status_code |-> PyInt(response.status), attempts |-> 1]

\* a client that retries every failure, client errors included
CopperClient_request_RetryClientErrors(max_retries, upstream, retry_count) ==
  LET response == Head(upstream)
      retried ==
        CopperClient_request(
          max_retries,
          IF Len(upstream) > 1 THEN Tail(upstream) ELSE upstream,
          retry_count + 1)
  IN IF /\ retry_count < max_retries
        /\ (response.status = 0 \/ response.status >= 400)
       THEN [retried EXCEPT !.attempts = @ + 1]
     ELSE CopperClient_request_NoRetry(max_retries, upstream, retry_count)

CopperClient_request(max_retries, upstream, retry_count) ==
  LET response == Head(upstream)
      retried ==
        CopperClient_request(
          max_retries,
          IF Len(upstream) > 1 THEN Tail(upstream) ELSE upstream,
          retry_count + 1)
  IN IF /\ retry_count < max_retries
        /\ (response.status \in {0, 429} \/ response.status >= 500)
       THEN [retried EXCEPT !.attempts = @ + 1]
     ELSE IF response.status = 0
       THEN [raised |-> "CopperAPIError",
             value |-> PyStr(<<"R", "e", "q", "u", "e", "s", "t", " ", "f", "a", "i", "l", "e", "d", " ", "a", "f", "t", "e", "r", " ">>
                             \o IntToStr(retry_count)
                             \o <<" ", "r", "e", "t", "r", "i", "e", "s", ":", " ">>
                             \o response.message),
             status_code |-> PyNone, attempts |-> 1]
     ELSE IF response.status >= 400
       THEN [raised |-> "CopperAPIError", value |-> PyStr(response.message),
             status_code |-> PyInt(response.status), attempts |-> 1]
     ELSE [raised |-> "", value |-> response.data,
           status_code |-> PyInt(response.status), attempts |-> 1]

\* the end of get_person: the envelope, 422 for a ValueError (pydantic's
\* ValidationError is one) and 500 for any other exception
Respond(mcp) ==
  IF mcp.raised = "" THEN mcp
  ELSE IF mcp.raised \in {"ValidationError", "ValueError"}
    THEN HTTPException(422)
  ELSE HTTPException(500)

\* get_person, get_company, get_opportunity, get_activity, behind the
\* dependency get_copper_client
get_entity(k, request) ==
  LET response ==
        CopperClient_request(CopperClient_init(PyNone), request.upstream, 0)
  IN IF ~request.auth THEN HTTPException(401)
     ELSE IF response.raised = "CopperAPIError"
       THEN IF Contains404(response.value.v) THEN HTTPException(404)
            ELSE HTTPException(502)
     ELSE Respond(Base_to_mcp(k, response.value))

\* results.extend([transformer.to_mcp(x) for x in found]) inside
\* try/except Exception: an exception is logged and nothing is added
Extended(results) ==
  IF \E i \in 1..Len(results) : results[i].raised # "" THEN << >>
  ELSE [i \in 1..Len(results) |-> results[i].value]

\* the blocks of search for the entity types `kinds`, in their order: the
\* records found for each type, transformed
RECURSIVE SearchEntities(_, _)
SearchEntities(kinds, request) ==
  IF kinds = << >> THEN << >>
  ELSE
    LET k == Head(kinds)
        response ==
          CopperClient_request(CopperClient_init(PyNone),
                               request.upstream[k], 0)
    IN (IF Truthy(request.entity_type)
           /\ request.entity_type # PyStr(TypeLiteral(k))
          THEN << >>
        ELSE IF response.raised # "" THEN << >>
        ELSE Extended([i \in 1..Len(response.value.v) |->
                         Base_to_mcp(k, response.value.v[i])]))
       \o SearchEntities(Tail(kinds), request)

\* search, behind the dependency get_copper_client
search(request) ==
  IF ~request.auth THEN HTTPException(401)
  ELSE Returned(PyList(SearchEntities(
         <<"person", "company", "opportunity", "activity">>, request)))

\* the kinds that have endpoints
EndpointKinds == {"person", "company", "opportunity", "activity"}

\* the failures of the Copper API
Failures ==
  {[status |-> 404, message |-> <<"{", "'", "s", "t", "a", "t", "u", "s", "'", ":", " ", "4", "0", "4", "}">>, data |-> PyNone],
   [status |-> 404, message |-> <<"N", "o", "t", " ", "F", "o", "u", "n", "d">>, data |-> PyNone],
   [status |-> 400, message |-> <<"I", "n", "v", "a", "l", "i", "d", " ", "i", "d", " ", "4", "0", "4", "0">>, data |-> PyNone],
   [status |-> 429, message |-> <<"T", "o", "o", " ", "M", "a", "n", "y", " ", "R", "e", "q", "u", "e", "s", "t", "s">>, data |-> PyNone],
   [status |-> 500, message |-> <<"S", "e", "r", "v", "e", "r", " ", "E", "r", "r", "o", "r">>, data |-> PyNone],
   [status |-> 0, message |-> <<"t", "i", "m", "e", "o", "u", "t">>, data |-> PyNone]}

\* a response of status 200 with the body `data`
Found(data) == [status |-> 200, message |-> <<"O", "K">>, data |-> data]

\* the bodies the Copper API answers a GET with
Bodies(k) ==
  CASE k = "person" ->
         {Person, [Person EXCEPT !.name = Missing],
          [Person EXCEPT !.name = PyStr(<<" ">>)]}
    [] k = "company" -> {Company}
    [] k = "opportunity" -> {Opportunity}
    [] OTHER -> {Activity, [Activity EXCEPT !.parent = Missing]}

\* the lists the Copper API answers a search with
Findings(k) ==
  {Found(PyList(<< >>))}
  \cup {Found(PyList(<<b>>)) : b \in Bodies(k)}
  \cup (IF k = "person"
        THEN {Found(PyList(<<Person, b>>)) : b \in Bodies(k)}
             \cup {[status |-> 500, message |-> <<"S", "e", "r", "v", "e", "r", " ", "E", "r", "r", "o", "r">>, data |-> PyNone]}
        ELSE {})

(***************************************************************************)
(* The command dispatchers.                                                *)
(***************************************************************************)
\* MCPError.to_dict of an error with the code `code` and the text `message`
MCPError_to_dict(code, message) ==
  PyDict([error |-> PyDict([type |-> PyStr(code), message |-> message,
                            details |-> PyDict(EmptyDict)])])

\* FastMCP.process_command of a server whose one tool is get_person;
\* command.name is command.get("tool") and command.outcome what the
\* function of the tool does when called
FastMCP_process_command(command) ==
  LET tool_name == command.name
      result == command.outcome
  IN IF ~Truthy(tool_name)
       THEN Returned(MCPError_to_dict(<<"V", "A", "L", "I", "D", "A", "T", "I", "O", "N", "_", "E", "R", "R", "O", "R">>,
                                      PyStr(<<"M", "i", "s", "s", "i", "n", "g", " ", "t", "o", "o", "l", " ", "n", "a", "m", "e">>)))
     ELSE IF tool_name # PyStr(<<"g", "e", "t", "_", "p", "e", "r", "s", "o", "n">>)
       THEN Returned(MCPError_to_dict(<<"V", "A", "L", "I", "D", "A", "T", "I", "O", "N", "_", "E", "R", "R", "O", "R">>,
                                      PyStr(<<"U", "n", "k", "n", "o", "w", "n", " ", "t", "o", "o", "l", ":", " ">> \o tool_name.v)))
     ELSE IF result.raised = ""
       THEN Returned(PyDict([status |-> PyStr(<<"s", "u", "c", "c", "e", "s", "s">>),
                             result |-> result.value]))
     ELSE IF result.raised = "MCPValidationError"
       THEN Returned(MCPError_to_dict(<<"V", "A", "L", "I", "D", "A", "T", "I", "O", "N", "_", "E", "R", "R", "O", "R">>, result.value))
     ELSE Returned(MCPError_to_dict(<<"M", "C", "P", "_", "E", "R", "R", "O", "R">>, result.value))

\* CopperMCPTransport.process_command with the handler _handle_get_person;
\* command.name is command.get("type") and command.outcome what the client
\* and the transformer do for the handler
CopperMCPTransport_process_command(command) ==
  LET command_type == command.name
      result == command.outcome
  IN IF ~Truthy(command_type) THEN Raised("MCPError")
     ELSE IF command_type # PyStr(<<"g", "e", "t", "_", "p", "e", "r", "s", "o", "n">>) THEN Raised("MCPError")
     ELSE IF result.raised = ""
       THEN Returned(PyDict([status |-> PyStr(<<"s", "u", "c", "c", "e", "s", "s">>),
                             data |-> result.value]))
     ELSE Raised("MCPError")

(***************************************************************************)
(* The command handlers (src/app/transport/copper_transport.py and the     *)
(* tool of src/app/mcp_server.py).  A handler's outcome carries `calls`,   *)
(* the CRM client methods it invoked, in order.                            *)
(***************************************************************************)
\* the handlers of CopperMCPTransport: the arguments each one requires, in
\* the order it tests them, the client method it invokes, and whether it
\* passes `data` through transform_from_copper first
Handlers ==
  [search_people |-> [required |-> <<"query">>, method |-> "people.search", transforms |-> FALSE],
   get_person |-> [required |-> <<"person_id">>, method |-> "people.get", transforms |-> FALSE],
   create_person |-> [required |-> <<"data">>, method |-> "people.create", transforms |-> TRUE],
   search_companies |-> [required |-> <<"query">>, method |-> "companies.search", transforms |-> FALSE],
   get_company |-> [required |-> <<"company_id">>, method |-> "companies.get", transforms |-> FALSE],
   get_task |-> [required |-> <<"task_id">>, method |-> "tasks.get", transforms |-> FALSE],
   create_task |-> [required |-> <<"data">>, method |-> "tasks.create", transforms |-> TRUE],
   update_task |-> [required |-> <<"task_id", "data">>, method |-> "tasks.update", transforms |-> TRUE],
   delete_task |-> [required |-> <<"task_id">>, method |-> "tasks.delete", transforms |-> FALSE],
   search_tasks |-> [required |-> <<"query">>, method |-> "tasks.search", transforms |-> FALSE],
   get_opportunity |-> [required |-> <<"opportunity_id">>, method |-> "opportunities.get", transforms |-> FALSE],
   create_opportunity |-> [required |-> <<"data">>, method |-> "opportunities.create", transforms |-> TRUE],
   update_opportunity |-> [required |-> <<"opportunity_id", "data">>, method |-> "opportunities.update", transforms |-> TRUE],
   delete_opportunity |-> [required |-> <<"opportunity_id">>, method |-> "opportunities.delete", transforms |-> FALSE],
   search_opportunities |-> [required |-> <<"query">>, method |-> "opportunities.search", transforms |-> FALSE],
   get_activity |-> [required |-> <<"activity_id">>, method |-> "activities.get", transforms |-> FALSE],
   create_activity |-> [required |-> <<"data">>, method |-> "activities.create", transforms |-> TRUE],
   update_activity |-> [required |-> <<"activity_id", "data">>, method |-> "activities.update", transforms |-> TRUE],
   delete_activity |-> [required |-> <<"activity_id">>, method |-> "activities.delete", transforms |-> FALSE],
   search_activities |-> [required |-> <<"query">>, method |-> "activities.search", transforms |-> FALSE],
   get_entity_activities |-> [required |-> <<"entity_id", "entity_type">>, method |-> "activities.list_for_entity", transforms |-> FALSE]]

\* valid_types of the two get_entity_activities
valid_types == {PyStr(sPerson), PyStr(sCompany), PyStr(sOpportunity), PyStr(sTask)}

\* CopperMCPTransport._handle_<command>(args); `outcome` is what
\* transform_from_copper and the client method answer when reached
CopperMCPTransport_handle(command, args, outcome) ==
  LET handler == Handlers[command]
      missing == {i \in 1..Len(handler.required) :
                    ~Truthy(DictGet(args, handler.required[i]))}
  IN IF missing # {}
       THEN [raised |-> "MCPValidationError", value |-> PyNone, calls |-> << >>]
     ELSE IF /\ command = "get_entity_activities"
             /\ DictGet(args, "entity_type") \notin valid_types
       THEN [raised |-> "MCPValidationError", value |-> PyNone, calls |-> << >>]
     ELSE IF handler.transforms /\ outcome.payload.raised # ""
       THEN [raised |-> outcome.payload.raised, value |-> PyNone, calls |-> << >>]
     ELSE [raised |-> outcome.result.raised, value |-> outcome.result.value,
           calls |-> <<handler.method>>]

\* the tool get_entity_activities(entity_id, entity_type) of mcp_server.py
get_entity_activities(entity_id, entity_type, outcome) ==
  IF entity_type \notin valid_types
    THEN [raised |-> "ValueError", value |-> PyNone, calls |-> << >>]
  ELSE [raised |-> outcome.result.raised, value |-> outcome.result.value,
        calls |-> <<"activities.list_for_entity">>]

(***************************************************************************)
(* The opportunities client (src/app/copper/client/opportunities.py).      *)
(* `upstream` is what the Copper API answers the POST of an item with; an  *)
(* outcome carries `posted`, the bodies sent, in order.                    *)
(***************************************************************************)
\* OpportunitiesClient.create of a dict
OpportunitiesClient_create(opportunity, upstream) ==
  IF ~Truthy(DictGet(opportunity, "name"))
    THEN [raised |-> "ValueError", posted |-> << >>,
          value |-> PyStr(<<"n", "a", "m", "e", " ", "i", "s", " ", "r", "e", "q", "u", "i", "r", "e", "d">>)]
  ELSE IF ~Truthy(DictGet(opportunity, "pipeline_id"))
    THEN [raised |-> "ValueError", posted |-> << >>,
          value |-> PyStr(<<"p", "i", "p", "e", "l", "i", "n", "e", "_", "i", "d", " ", "i", "s", " ", "r", "e", "q", "u", "i", "r", "e", "d">>)]
  ELSE IF ~Truthy(DictGet(opportunity, "pipeline_stage_id"))
    THEN [raised |-> "ValueError", posted |-> << >>,
          value |-> PyStr(<<"p", "i", "p", "e", "l", "i", "n", "e", "_", "s", "t", "a", "g", "e", "_", "i", "d", " ", "i", "s", " ", "r", "e", "q", "u", "i", "r", "e", "d">>)]
  ELSE LET response == CopperClient_request(CopperClient_init(PyNone),
                                            upstream, 0)
       IN [raised |-> response.raised, posted |-> <<opportunity>>,
           value |-> response.value]

\* the loop of bulk_create from item i on
RECURSIVE BulkCreateFrom(_, _, _, _, _, _)
BulkCreateFrom(opportunities, upstream, i, results, errors, posted) ==
  IF i > Len(opportunities)
  THEN IF Len(errors) > 0
       THEN [raised |-> "ValueError", posted |-> posted,
             value |-> PyStr(<<"B", "u", "l", "k", " ", "c", "r", "e", "a", "t", "e", " ", "f", "a", "i", "l", "e", "d", " ", "w", "i", "t", "h", " ", "e", "r", "r", "o", "r", "s", ":", " ">>
                             \o Join(<<";", " ">>, errors))]
       ELSE [raised |-> "", posted |-> posted, value |-> PyList(results)]
  ELSE LET result == OpportunitiesClient_create(opportunities[i], upstream[i])
           where == <<"r", "r", "o", "r", " ", "i", "n", " ", "o", "p", "p", "o", "r", "t", "u", "n", "i", "t", "y", " ">>
                    \o IntToStr(i - 1) \o <<":", " ">> \o result.value.v
       IN BulkCreateFrom(
            opportunities, upstream, i + 1,
            IF result.raised = "" THEN Append(results, result.value)
            ELSE results,
            IF result.raised = "ValueError"
              THEN Append(errors, <<"E">> \o where)
            ELSE IF result.raised = "CopperAPIError"
              THEN Append(errors, <<"A", "P", "I", " ", "e">> \o where)
            ELSE errors,
            posted \o result.posted)

\* a bulk_create that gives up after the first item
OpportunitiesClient_bulk_create_FirstOnly(opportunities, upstream) ==
  BulkCreateFrom(IF Len(opportunities) = 0 THEN << >>
                 ELSE <<opportunities[1]>>,
                 upstream, 1, << >>, << >>, << >>)

\* OpportunitiesClient.bulk_create
OpportunitiesClient_bulk_create(opportunities, upstream) ==
  IF Len(opportunities) = 0
  THEN [raised |-> "ValueError", posted |-> << >>,
        value |-> PyStr(<<"o", "p", "p", "o", "r", "t", "u", "n", "i", "t", "i", "e", "s", " ", "l", "i", "s", "t", " ", "c", "a", "n", "n", "o", "t", " ", "b", "e", " ", "e", "m", "p", "t", "y">>)]
  ELSE BulkCreateFrom(opportunities, upstream, 1, << >>, << >>, << >>)

(***************************************************************************)
(* The entity clients (src/app/copper/entities/base.py and                 *)
(* src/app/copper/client/companies.py).  An outcome carries `sent`, the    *)
(* body of the request made, None when none was, and `after`, the dict of  *)
(* the caller as the call leaves it.                                       *)
(***************************************************************************)
\* BaseEntityClient.search: data = query or {} is the caller's dict itself
\* when that is not empty, and data.update(...) writes into it
BaseEntityClient_search(query, page_size, page_number, response) ==
  LET paging == [page_size |-> PyInt(page_size),
                 page_number |-> PyInt(page_number)]
      data == IF Truthy(query) THEN PyDict(paging @@ query.v)
              ELSE PyDict(paging)
  IN [raised |-> response.raised, value |-> response.value, sent |-> data,
      after |-> IF Truthy(query) THEN data ELSE query]

\* "Ensure website has protocol" of CompaniesClient.create and .update:
\* the company dict after it
EnsureProtocol(company) ==
  LET website == DictGet(company, "website")
      StartsWith(text, prefix) ==
        Len(text) >= Len(prefix) /\ SubSeq(text, 1, Len(prefix)) = prefix
  IN IF /\ Truthy(website)
        /\ website.t = "str"
        /\ ~StartsWith(website.v, <<"h", "t", "t", "p", ":", "/", "/">>)
        /\ ~StartsWith(website.v, <<"h", "t", "t", "p", "s", ":", "/", "/">>)
     THEN PyDict([company.v EXCEPT !["website"] =
                    PyStr(<<"h", "t", "t", "p", "s", ":", "/", "/">> \o website.v)])
     ELSE company

\* CompaniesClient.create
CompaniesClient_create(company, response) ==
  IF ~Truthy(DictGet(company, "name"))
  THEN [raised |-> "ValueError", value |-> PyNone, sent |-> PyNone,
        after |-> company]
  ELSE [raised |-> response.raised, value |-> response.value,
        sent |-> EnsureProtocol(company), after |-> EnsureProtocol(company)]

\* CompaniesClient.update
CompaniesClient_update(company_id, company, response) ==
  IF company_id <= 0
  THEN [raised |-> "ValueError", value |-> PyNone, sent |-> PyNone,
        after |-> company]
  ELSE [raised |-> response.raised, value |-> response.value,
        sent |-> EnsureProtocol(company), after |-> EnsureProtocol(company)]

(***************************************************************************)
(* The credentials (src/app/copper/auth.py).  The cache is a function from *)
(* its keys to entries [token, expires_at]; environ is a function from the *)
(* names of the environment variables to their value, None when unset.     *)
(***************************************************************************)
\* TokenCache.__init__: the default life of an entry, in seconds
ttl_seconds == 3600

\* the characters of [a-zA-Z]
Letters ==
  {"a", "b", "c", "d", "e", "f", "g", "h", "i", "j", "k", "l", "m",
   "n", "o", "p", "q", "r", "s", "t", "u", "v", "w", "x", "y", "z",
   "A", "B", "C", "D", "E", "F", "G", "H", "I", "J", "K", "L", "M",
   "N", "O", "P", "Q", "R", "S", "T", "U", "V", "W", "X", "Y", "Z"}

\* TokenCache.get: the token of a live entry; an expired entry is deleted
TokenCache_get(cache, key, time) ==
  IF key \notin DOMAIN cache THEN [value |-> PyNone, cache |-> cache]
  ELSE IF time > cache[key].expires_at
    THEN [value |-> PyNone,
          cache |-> [k \in DOMAIN cache \ {key} |-> cache[k]]]
  ELSE [value |-> cache[key].token, cache |-> cache]

TokenCache_set(cache, key, token, time) ==
  [k \in DOMAIN cache \cup {key} |->
     IF k = key THEN [token |-> token, expires_at |-> time + ttl_seconds]
     ELSE cache[k]]

\* validate_token: not empty, 32 characters or more, all of [a-zA-Z0-9]
validate_token(token) ==
  IF ~Truthy(token) THEN Raised("TokenValidationError")
  ELSE IF Len(token.v) < 32 THEN Raised("TokenValidationError")
  ELSE IF ~(\A i \in 1..Len(token.v) :
              token.v[i] \in Letters \/ IsDigit(token.v[i]))
    THEN Raised("TokenValidationError")
  ELSE Returned(TRUE)

\* get_auth_token: the outcome of the call and the cache it leaves
get_auth_token(cache, environ, time, env_var, use_cache) ==
  LET cached == IF use_cache THEN TokenCache_get(cache, env_var, time)
                ELSE [value |-> PyNone, cache |-> cache]
      token == environ[env_var]
  IN IF use_cache /\ Truthy(cached.value)
       THEN [out |-> Returned(cached.value), cache |-> cached.cache]
     ELSE IF ~Truthy(token)
       THEN [out |-> Raised("AuthenticationError"), cache |-> cached.cache]
     ELSE IF validate_token(token).raised # ""
       THEN [out |-> Raised("AuthenticationError"), cache |-> cached.cache]
     ELSE [out |-> Returned(token),
           cache |-> IF use_cache
                     THEN TokenCache_set(cached.cache, env_var, token, time)
                     ELSE cached.cache]

\* get_user_credentials: the outcome of the call and the cache it leaves
get_user_credentials(cache, environ, time, use_cache) ==
  LET \* re.match(r'^[a-zA-Z0-9._%+-]+@[a-zA-Z0-9.-]+\.[a-zA-Z]{2,}$', s)
      EmailMatches(s) ==
        \E at \in 2..Len(s) : \E dot \in (at + 2)..(Len(s) - 2) :
          /\ s[at] = "@"
          /\ s[dot] = "."
          /\ \A i \in 1..(at - 1) :
               s[i] \in Letters \cup {".", "_", "%", "+", "-"} \/ IsDigit(s[i])
          /\ \A i \in (at + 1)..(dot - 1) :
               s[i] \in Letters \cup {".", "-"} \/ IsDigit(s[i])
          /\ \A i \in (dot + 1)..Len(s) : s[i] \in Letters
      got_email == IF use_cache
                   THEN TokenCache_get(cache, "COPPER_USER_EMAIL", time)
                   ELSE [value |-> PyNone, cache |-> cache]
      got_id == IF use_cache
                THEN TokenCache_get(got_email.cache, "COPPER_USER_ID", time)
                ELSE [value |-> PyNone, cache |-> cache]
      email == environ["COPPER_USER_EMAIL"]
      user_id == environ["COPPER_USER_ID"]
  IN IF use_cache /\ Truthy(got_email.value) /\ Truthy(got_id.value)
       THEN [out |-> Returned([t |-> "tuple",
                               v |-> <<got_email.value, got_id.value>>]),
             cache |-> got_id.cache]
     ELSE IF ~Truthy(email) \/ ~Truthy(user_id)
       THEN [out |-> Raised("AuthenticationError"), cache |-> got_id.cache]
     ELSE IF ~EmailMatches(email.v) \/ ~IsDecimal(user_id.v)
       THEN [out |-> Raised("AuthenticationError"), cache |-> got_id.cache]
     ELSE [out |-> Returned([t |-> "tuple", v |-> <<email, user_id>>]),
           cache |-> IF use_cache
                     THEN TokenCache_set(
                            TokenCache_set(got_id.cache, "COPPER_USER_EMAIL",
                                           email, time),
                            "COPPER_USER_ID", user_id, time)
                     ELSE got_id.cache]

(***************************************************************************)
(* The requests.                                                           *)
(***************************************************************************)
Init ==
  LET
    SelectorKinds == {"base", "person", "company"}
    SelectorArgs(k) ==
      CASE k = "base" -> {DictContacts(c) : c \in CategoryLists}
        [] k = "person" -> {EmailContacts(c) : c \in CategoryLists}
        [] OTHER -> {PhoneContacts(c) : c \in CategoryLists}
    RelationshipArgs ==
      [rel_type : {PyStr(sUser), PyStr(sCompany)},
       rel_id : {PyNone} \cup {PyInt(i) : i \in 0..MaxId},
       name : {PyNone, PyStr(sEmpty), PyStr(<<"B", "o", "b">>)}]
    NormalizerKinds == {"base", "company", "activity"}
    DatetimeArgs ==
      {PyNone} \cup {PyInt(t) : t \in Timestamps}
        \cup {PyDatetime(t) : t \in Timestamps}
    PersonRecords ==
      {[Person EXCEPT !.id = i, !.name = n, !.company_id = c, !.assignee_id = a,
                      !.emails = e, !.date_created = d] :
         i \in {PyNone, PyInt(7), PyInt(MaxId)},
         n \in {PyStr(sAlYu), PyStr(sCy), PyStr(sEmpty), PyStr(<<" ">>),
                PyStr(<<"A", "l", " ", "Y", "u", " ", " ", "C", "y">>)},
         c \in OptIds, a \in {PyNone, PyInt(7)}, e \in ContactLists,
         d \in OptDates}
      \cup
      {[Person EXCEPT !.company_id = c, !.assignee_id = c, !.address = ad,
                      !.custom_fields = cf, !.title = t, !.first_name = f,
                      !.phone_numbers = ph, !.date_modified = d] :
         c \in PresentIds, ad \in Addresses, cf \in CustomFieldLists,
         t \in {PyNone, PyStr(<<"C", "E", "O">>)}, f \in {PyNone, PyStr(<<"A", "l">>)},
         ph \in PhoneLists, d \in {PyNone, PyInt(0)}}
      \cup
      {[Person EXCEPT !.name = n, !.first_name = f, !.last_name = l] :
         n \in {PyStr(sAlYu), PyStr(sCy), PyStr(sEmpty)},
         f \in {PyNone, PyStr(<<"B", "o", "b">>)},
         l \in {PyNone, PyStr(<<"L", "e", "e">>)}}
    CompanyRecords ==
      {[Company EXCEPT !.id = i, !.assignee_id = a, !.primary_contact_id = c,
                       !.date_created = d, !.phone_numbers = ph,
                       !.custom_fields = cf] :
         i \in {PyNone, PyInt(7), PyInt(MaxId)}, a \in OptIds,
         c \in {PyNone, PyInt(7)}, d \in OptDates, ph \in PhoneLists,
         cf \in CustomFieldLists}
      \cup
      {[Company EXCEPT !.assignee_id = a, !.primary_contact_id = a,
                       !.address = ad, !.status = st, !.details = de,
                       !.annual_revenue = r, !.websites = w,
                       !.date_modified = d] :
         a \in PresentIds, ad \in Addresses,
         st \in {PyNone, PyStr(<<"a", "c", "t", "i", "v", "e">>)}, de \in {PyNone, PyStr(sNote)},
         r \in {PyNone, PyFloat(5)}, w \in {PyList(<< >>), PyList(<<PyStr(<<"h", "t", "t", "p", ":", "/", "/", "a", ".", "b", "/">>)>>)},
         d \in {PyNone, PyInt(0)}}
    OpportunityRecords ==
      {[Opportunity EXCEPT !.id = i, !.company_id = c, !.primary_contact_id = p,
                           !.assignee_id = a, !.pipeline_id = pl,
                           !.pipeline_stage_id = pl, !.priority = pr,
                           !.close_date = cd, !.monetary_value = mv,
                           !.custom_fields = cf] :
         i \in {PyNone, PyInt(MaxId)}, c \in OptIds, p \in {PyNone, PyInt(7)},
         a \in {PyNone, PyInt(MaxId)}, pl \in {PyNone, PyInt(7)},
         pr \in {PyNone, PyStr(<<"h", "i", "g", "h">>)}, cd \in {PyNone, PyInt(1234567890)},
         mv \in {PyNone, PyFloat(5), PyFloat(0 - 1000)},
         cf \in {PyList(<< >>), PyList(<<CustomField(1, PyStr(sNote))>>)}}
    ActivityRecords ==
      {[Activity EXCEPT !.id = i, !.parent = p, !.assignee_id = a,
                        !.activity_date = d, !.custom_fields = cf,
                        !.created_at = c, !.details = de] :
         i \in {PyNone, PyStr(<<"7">>)},
         p \in {PyDict(EmptyDict),
                PyDict([type |-> PyStr(sPerson), id |-> PyStr(<<"7">>)]),
                PyDict([type |-> PyStr(<<"P", "e", "r", "s", "o", "n">>), id |-> PyStr(<<"7">>)]),
                PyDict([type |-> PyStr(sCompany), id |-> PyStr(IntToStr(MaxId))])},
         a \in {PyNone, PyStr(<<"7">>), PyStr(IntToStr(MaxId))},
         d \in {PyInt(0), PyInt(86400), PyInt(1234567890)},
         cf \in CustomFieldLists, c \in {PyNone, PyInt(0)},
         de \in {PyNone, PyStr(sNote)}}
    TaskRecords ==
      {[Task EXCEPT !.id = i, !.related_resource = r, !.assignee_id = a,
                    !.due_date = d, !.reminder_date = d, !.completed_date = c,
                    !.custom_fields = cf, !.date_created = dc, !.priority = pr] :
         i \in {PyNone, PyInt(7), PyInt(MaxId)},
         r \in {PyNone, PyDict(EmptyDict),
                PyDict([type |-> PyStr(sPerson), id |-> PyInt(MaxId)])},
         a \in OptIds, d \in OptDates, c \in {PyNone, PyInt(86400)},
         cf \in {PyNone, PyList(<< >>),
                 PyList(<<PyDict([custom_field_definition_id |-> PyInt(1),
                                  value |-> PyStr(sNote)])>>)},
         dc \in {PyNone, PyInt(1234567890)}, pr \in {PyNone, PyStr(<<"h", "i", "g", "h">>)}}
    \* inputs of to_mcp that lack a field or carry one out of range
    PersonInputs ==
      {[Person EXCEPT !.name = n, !.emails = e, !.company_id = c, !.address = ad] :
         n \in {Missing, PyNone, PyStr(sAlYu), PyStr(sCy)},
         e \in {Missing} \cup ContactLists, c \in {PyNone, PyInt(MaxId)},
         ad \in Addresses}
    OpportunityInputs ==
      {[Opportunity EXCEPT !.name = n, !.status = st, !.pipeline_id = pl,
                           !.pipeline_stage_id = ps, !.monetary_value = mv,
                           !.win_probability = wp] :
         n \in {Missing, PyStr(sEmpty), PyStr(sDeal)},
         st \in {Missing, PyStr(<<"o", "p", "e", "n">>)},
         pl \in {Missing, PyNone, PyInt(7)}, ps \in {Missing, PyInt(MaxId)},
         mv \in {Missing, PyFloat(0 - 1000), PyFloat(5)},
         wp \in {PyNone, PyFloat(50), PyFloat(101)}}
    InputsOf(k) ==
      CASE k = "person" -> PersonInputs
        [] k = "opportunity" -> OpportunityInputs
        [] OTHER -> {}
    RecordsOf(k) ==
      CASE k = "person" -> PersonRecords
        [] k = "company" -> CompanyRecords
        [] k = "opportunity" -> OpportunityRecords
        [] k = "activity" -> ActivityRecords
        [] OTHER -> TaskRecords
    GetRequests(k) ==
      {[auth |-> a, upstream |-> <<f, t>>] :
         a \in BOOLEAN,
         f \in Failures \cup {Found(b) : b \in Bodies(k)},
         t \in Failures \cup {Found(b) : b \in Bodies(k)}}
    SearchRequests ==
      {[auth |-> a, entity_type |-> e,
        upstream |-> [person |-> <<up>>, company |-> <<uc>>,
                      opportunity |-> <<uo>>, activity |-> <<ua>>]] :
         a \in BOOLEAN,
         e \in {PyNone, PyStr(sPerson), PyStr(sCompany), PyStr(sTask)},
         up \in Findings("person"), uc \in Findings("company"),
         uo \in Findings("opportunity"), ua \in Findings("activity")}
    \* commands without a name, with an empty, an unknown and a known name, and
    \* the ways the tool or handler can end
    Commands ==
      {[name |-> n, outcome |-> o] :
         n \in {PyNone, PyStr(sEmpty), PyStr(<<"B", "o", "b">>), PyStr(<<"g", "e", "t", "_", "p", "e", "r", "s", "o", "n">>)},
         o \in {Returned(x) : x \in {PyNone, PyDict(EmptyDict), PyList(<< >>),
                                      PyDict([type |-> PyStr(sPerson)])}}
               \cup {[raised |-> e, value |-> PyStr(m)] :
                       e \in {"MCPValidationError", "MCPError", "ValueError",
                              "ValidationError", "CopperAPIError", "TypeError",
                              "KeyError"},
                       m \in {sEmpty, sNote}}}
  IN
  /\ pc = "call"
  /\ ret = NoCall
  /\ rev = NoCall
  /\ token_cache = << >>
  /\ now = 0
  /\ \/ /\ op = "_get_primary_contact"
        /\ kind \in SelectorKinds
        /\ arg \in SelectorArgs(kind)
     \/ /\ op = "_create_relationship"
        /\ kind = "base"
        /\ arg \in RelationshipArgs
     \/ /\ op = "_format_datetime"
        /\ kind \in NormalizerKinds
        /\ arg \in DatetimeArgs
     \/ /\ op \in {"to_mcp", "_to_mcp_format"}
        /\ kind \in EntityKinds
        /\ arg \in RecordsOf(kind)
     \/ /\ op = "to_mcp"
        /\ kind \in EntityKinds
        /\ arg \in InputsOf(kind)
     \/ /\ op = "_to_copper_format"
        /\ kind \in EntityKinds
        /\ arg \in Envelopes(kind)
     \/ /\ op = "get"
        /\ kind \in EndpointKinds
        /\ arg \in GetRequests(kind)
     \/ /\ op = "search"
        /\ kind = "all"
        /\ arg \in SearchRequests
     \/ /\ op = "process_command"
        /\ kind \in {"FastMCP", "CopperMCPTransport"}
        /\ arg \in Commands
     \/ /\ op = "handle"
        /\ kind \in {"CopperMCPTransport", "mcp_server"}
        /\ arg \in {[command |-> c,
                      args |-> PyDict([n \in {x \in DOMAIN a : a[x] # Missing} |-> a[n]]),
                      outcome |-> [payload |-> p, result |-> r]] :
                      c \in IF kind = "mcp_server" THEN {"get_entity_activities"}
                            ELSE DOMAIN Handlers,
                      a \in UNION {[{Handlers[h].required[i] :
                                       i \in 1..Len(Handlers[h].required)} ->
                                      {Missing, PyStr(<< >>), PyStr(<<"7">>),
                                       PyStr(sPerson), PyStr(<<"l", "e", "a", "d">>),
                                       PyDict(EmptyDict),
                                       PyDict([name |-> PyStr(sDeal)])}] :
                                    h \in DOMAIN Handlers},
                      p \in {Returned(PyDict(EmptyDict)), Raised("ValidationError")},
                      r \in {Returned(PyList(<< >>)), Raised("CopperAPIError")}}
        /\ DOMAIN arg.args.v \subseteq
             {Handlers[arg.command].required[i] :
                i \in 1..Len(Handlers[arg.command].required)}
        /\ kind = "mcp_server" => DOMAIN arg.args.v = {"entity_id", "entity_type"}
     \/ /\ op = "bulk_create"
        /\ kind = "OpportunitiesClient"
        /\ arg \in UNION {[opportunities : [1..n -> {PyDict([name |-> PyStr(sDeal), pipeline_id |-> PyInt(7),
                                                             pipeline_stage_id |-> PyInt(7)]),
                                                     PyDict([pipeline_id |-> PyInt(7),
                                                             pipeline_stage_id |-> PyInt(7)]),
                                                     PyDict([name |-> PyStr(sDeal), pipeline_id |-> PyInt(7)])}],
                            upstream : [1..n -> {<<Found(PyDict([id |-> PyInt(1)]))>>,
                                                 <<Found(PyDict([id |-> PyInt(2)]))>>,
                                                 <<[status |-> 400, message |-> <<"B", "a", "d">>,
                                                    data |-> PyNone]>>,
                                                 <<[status |-> 0, message |-> <<"t", "i", "m", "e", "o", "u", "t">>,
                                                    data |-> PyNone]>>}]] :
                            n \in 0..MaxItems}
     \/ /\ op = "BaseEntityClient.search"
        /\ kind = "client"
        /\ arg \in [query : {PyNone, PyDict(EmptyDict),
                              PyDict([name |-> PyStr(sDeal)]),
                              PyDict([name |-> PyStr(sDeal), page_size |-> PyInt(5)])},
                     page_size : {25, 50},
                     page_number : {1, 2},
                     response : {Returned(PyList(<< >>)), Raised("CopperAPIError")}]
     \/ /\ op \in {"CompaniesClient.create", "CompaniesClient.update"}
        /\ kind = "client"
        /\ arg \in {[company_id |-> i, company |-> PyDict(n @@ w),
                      response |-> r] :
                      i \in IF op = "CompaniesClient.update" THEN {0, 7} ELSE {7},
                      n \in {EmptyDict, [name |-> PyStr(sDeal)]},
                      w \in {EmptyDict} \cup
                            {[website |-> x] :
                               x \in {PyNone, PyInt(7), PyStr(<<"a", ".", "b">>),
                                      PyStr(<<"h", "t", "t", "p", ":", "/", "/", "a", ".", "b">>),
                                      PyStr(<<"h", "t", "t", "p", "s", ":", "/", "/", "a", ".", "b">>)}},
                      r \in {Returned(PyDict([id |-> PyInt(7)])),
                             Raised("CopperAPIError")}}
     \/ /\ op = "auth"
        /\ kind = "none"
        /\ arg \in {[COPPER_API_TOKEN |-> t, COPPER_USER_EMAIL |-> e,
                      COPPER_USER_ID |-> i] :
                      t \in {PyNone, PyStr(<<"a", "b", "c", "1", "2", "3">>),
                             PyStr([n \in 1..32 |-> IF n % 2 = 0 THEN "7" ELSE "k"]),
                             PyStr([n \in 1..32 |-> IF n = 9 THEN "-" ELSE "k"])},
                      e \in {PyNone, PyStr(<<"a", "@", "b", ".", "c", "o">>),
                             PyStr(<<"a", "@", "b">>)},
                      i \in {PyNone, PyStr(<<"4", "2">>), PyStr(<<"x", "1">>)}}
     \/ /\ op = "_request"
        /\ kind = "CopperClient"
        /\ arg \in {[max_retries |-> m, upstream |-> u, retry_count |-> r] :
                      m \in {PyNone, PyInt(0), PyInt(1), PyInt(2)},
                      u \in UNION {[1..n -> {f \in Failures \cup {Found(PyDict(EmptyDict))} :
                                              f.status # 400}] :
                                     n \in 1..MaxAttempts},
                      r \in {0, 1}}

\* a call of _get_primary_contact of the transformer `kind`
GetPrimaryContact ==
  /\ pc = "call"
  /\ op = "_get_primary_contact"
  /\ ret' = CASE kind = "base" -> Base_get_primary_contact(arg)
              [] kind = "person" ->
                   Returned(Person_get_primary_contact(arg, PyStr(sWork)))
              [] OTHER ->
                   Returned(Company_get_primary_contact(arg, PyStr(sWork)))
  /\ pc' = "return"
  /\ UNCHANGED <<op, kind, arg, rev, token_cache, now>>

\* a call of _create_relationship
CreateRelationship ==
  /\ pc = "call"
  /\ op = "_create_relationship"
  /\ ret' = Returned(Base_create_relationship(arg.rel_type, arg.rel_id,
                                              arg.name))
  /\ pc' = "return"
  /\ UNCHANGED <<op, kind, arg, rev, token_cache, now>>

\* a call of _format_datetime of the transformer `kind`
FormatDatetime ==
  /\ pc = "call"
  /\ op = "_format_datetime"
  /\ ret' = CASE kind = "base" -> Base_format_datetime(arg)
              [] kind = "company" -> Company_format_datetime(arg)
              [] OTHER -> Activity_format_datetime(arg)
  /\ pc' = "return"
  /\ UNCHANGED <<op, kind, arg, rev, token_cache, now>>

\* a call of to_mcp of the transformer `kind` with the record arg
ToMcp ==
  /\ pc = "call"
  /\ op = "to_mcp"
  /\ ret' = Base_to_mcp(kind, arg)
  /\ pc' = "return"
  /\ UNCHANGED <<op, kind, arg, rev, token_cache, now>>

\* a call of _to_mcp_format of the transformer `kind` with the validated
\* record
ToMcpFormat ==
  /\ pc = "call"
  /\ op = "_to_mcp_format"
  /\ ret' = ToMcpFormatOf(kind, ModelValidate(kind, arg))
  /\ pc' = "return"
  /\ UNCHANGED <<op, kind, arg, rev, token_cache, now>>

\* the round trip: the forward output is handed to _to_copper_format
ReverseOfForward ==
  /\ pc = "return"
  /\ op = "_to_mcp_format"
  /\ ret.raised = ""
  /\ rev' = ToCopperFormatOf(kind, ret.value)
  /\ pc' = "reversed"
  /\ UNCHANGED <<op, kind, arg, ret, token_cache, now>>

\* a call of _to_copper_format of the transformer `kind` with the envelope
ToCopperFormat ==
  /\ pc = "call"
  /\ op = "_to_copper_format"
  /\ ret' = ToCopperFormatOf(kind, arg)
  /\ pc' = "return"
  /\ UNCHANGED <<op, kind, arg, rev, token_cache, now>>

\* GET /people/{id}, /companies/{id}, /opportunities/{id}, /activities/{id}
GetEntity ==
  /\ pc = "call"
  /\ op = "get"
  /\ ret' = get_entity(kind, arg)
  /\ pc' = "return"
  /\ UNCHANGED <<op, kind, arg, rev, token_cache, now>>

\* GET /search
Search ==
  /\ pc = "call"
  /\ op = "search"
  /\ ret' = search(arg)
  /\ pc' = "return"
  /\ UNCHANGED <<op, kind, arg, rev, token_cache, now>>

\* a command dispatched by the server or by the transport
ProcessCommand ==
  /\ pc = "call"
  /\ op = "process_command"
  /\ ret' = IF kind = "FastMCP" THEN FastMCP_process_command(arg)
            ELSE CopperMCPTransport_process_command(arg)
  /\ pc' = "return"
  /\ UNCHANGED <<op, kind, arg, rev, token_cache, now>>

\* one call of CopperClient._request by a client constructed with
\* max_retries
Request ==
  /\ pc = "call"
  /\ op = "_request"
  /\ ret' = CopperClient_request(CopperClient_init(arg.max_retries),
                                 arg.upstream, arg.retry_count)
  /\ pc' = "return"
  /\ UNCHANGED <<op, kind, arg, rev, token_cache, now>>

\* a command handled by its _handle_ method of CopperMCPTransport
Handle ==
  /\ pc = "call"
  /\ op = "handle"
  /\ kind = "CopperMCPTransport"
  /\ ret' = CopperMCPTransport_handle(arg.command, arg.args, arg.outcome)
  /\ pc' = "return"
  /\ UNCHANGED <<op, kind, arg, rev, token_cache, now>>

\* a call of the tool get_entity_activities of mcp_server.py
GetEntityActivities ==
  /\ pc = "call"
  /\ op = "handle"
  /\ kind = "mcp_server"
  /\ ret' = get_entity_activities(arg.args.v["entity_id"],
                                  arg.args.v["entity_type"], arg.outcome)
  /\ pc' = "return"
  /\ UNCHANGED <<op, kind, arg, rev, token_cache, now>>

\* a call of OpportunitiesClient.bulk_create
BulkCreate ==
  /\ pc = "call"
  /\ op = "bulk_create"
  /\ ret' = OpportunitiesClient_bulk_create(arg.opportunities, arg.upstream)
  /\ pc' = "return"
  /\ UNCHANGED <<op, kind, arg, rev, token_cache, now>>

\* a call of BaseEntityClient.search
EntitySearch ==
  /\ pc = "call"
  /\ op = "BaseEntityClient.search"
  /\ ret' = BaseEntityClient_search(arg.query, arg.page_size, arg.page_number,
                                    arg.response)
  /\ pc' = "return"
  /\ UNCHANGED <<op, kind, arg, rev, token_cache, now>>

\* a call of CompaniesClient.create
CompanyCreate ==
  /\ pc = "call"
  /\ op = "CompaniesClient.create"
  /\ ret' = CompaniesClient_create(arg.company, arg.response)
  /\ pc' = "return"
  /\ UNCHANGED <<op, kind, arg, rev, token_cache, now>>

\* a call of CompaniesClient.update
CompanyUpdate ==
  /\ pc = "call"
  /\ op = "CompaniesClient.update"
  /\ ret' = CompaniesClient_update(arg.company_id, arg.company, arg.response)
  /\ pc' = "return"
  /\ UNCHANGED <<op, kind, arg, rev, token_cache, now>>

\* a call of get_auth_token(env_var, use_cache); kind names the function
\* of the last call
GetAuthToken ==
  /\ op = "auth"
  /\ \E env_var \in DOMAIN arg, use_cache \in BOOLEAN :
       LET call == get_auth_token(token_cache, arg, now, env_var, use_cache)
       IN /\ ret' = call.out
          /\ token_cache' = call.cache
  /\ kind' = "get_auth_token"
  /\ pc' = "return"
  /\ UNCHANGED <<op, arg, rev, now>>

\* a call of get_user_credentials(use_cache)
GetUserCredentials ==
  /\ op = "auth"
  /\ \E use_cache \in BOOLEAN :
       LET call == get_user_credentials(token_cache, arg, now, use_cache)
       IN /\ ret' = call.out
          /\ token_cache' = call.cache
  /\ kind' = "get_user_credentials"
  /\ pc' = "return"
  /\ UNCHANGED <<op, arg, rev, now>>

\* a call of get_auth_config(use_cache): get_auth_token of the default
\* variable, then get_user_credentials
GetAuthConfig ==
  /\ op = "auth"
  /\ \E use_cache \in BOOLEAN :
       LET token == get_auth_token(token_cache, arg, now,
                                   "COPPER_API_TOKEN", use_cache)
           Credentials(call) ==
             IF call.out.raised # "" THEN call
             ELSE [out |-> Returned(PyDict([token |-> token.out.value,
                                            email |-> call.out.value.v[1],
                                            user_id |-> call.out.value.v[2]])),
                   cache |-> call.cache]
           config ==
             IF token.out.raised # "" THEN token
             ELSE Credentials(get_user_credentials(token.cache, arg, now,
                                                   use_cache))
       IN /\ ret' = config.out
          /\ token_cache' = config.cache
  /\ kind' = "get_auth_config"
  /\ pc' = "return"
  /\ UNCHANGED <<op, arg, rev, now>>

\* a call of clear_auth_cache()
ClearAuthCache ==
  /\ op = "auth"
  /\ token_cache' = << >>
  /\ ret' = Returned(PyNone)
  /\ kind' = "clear_auth_cache"
  /\ pc' = "return"
  /\ UNCHANGED <<op, arg, rev, now>>

\* time.time() advances past the life of the entries cached so far
Tick ==
  /\ op = "auth"
  /\ now < MaxTicks * (ttl_seconds + 1)
  /\ now' = now + ttl_seconds + 1
  /\ UNCHANGED <<op, kind, arg, pc, ret, rev, token_cache>>

Next ==
  \/ GetPrimaryContact
  \/ CreateRelationship
  \/ FormatDatetime
  \/ ToMcp
  \/ ToMcpFormat
  \/ ReverseOfForward
  \/ ToCopperFormat
  \/ GetEntity
  \/ Search
  \/ ProcessCommand
  \/ Request
  \/ Handle
  \/ GetEntityActivities
  \/ BulkCreate
  \/ EntitySearch
  \/ CompanyCreate
  \/ CompanyUpdate
  \/ GetAuthToken
  \/ GetUserCredentials
  \/ GetAuthConfig
  \/ ClearAuthCache
  \/ Tick

Spec == Init /\ [][Next]_vars

(***************************************************************************)
(* Properties of the helpers.                                              *)
(***************************************************************************)
\* the category of a contact handed to the selector of `kind`
ContactCategory(c) == IF c.t = "dict" THEN c.v["category"].v ELSE c.v.category.v

\* what the selector of `kind` returns when it selects contact c: the base
\* selector the value of the dict, the other two the contact object
Selected(c) == IF c.t = "dict" THEN c.v["value"] ELSE c

\* the positions of the contacts whose category is exactly "work", and of
\* those whose category is "work" in some case
WorkPositions(contacts) ==
  {i \in 1..Len(contacts) : ContactCategory(contacts[i]) = sWork}

AnyCaseWorkPositions(contacts) ==
  {i \in 1..Len(contacts) : Lower(ContactCategory(contacts[i])) = sWork}

Minimum(S) == CHOOSE i \in S : \A j \in S : i <= j

SelectorReturned == op = "_get_primary_contact" /\ pc = "return"

\* C3: the selector returns the first contact of category "work" wherever
\* it stands in the list, the first contact of a non-empty list that has
\* none, and None for the empty list.
C3_PrimaryContactSelection ==
  SelectorReturned =>
    /\ ret.raised = ""
    /\ Len(arg.v) = 0 => ret.value = PyNone
    /\ WorkPositions(arg.v) # {} =>
         ret.value = Selected(arg.v[Minimum(WorkPositions(arg.v))])
    /\ (Len(arg.v) > 0 /\ WorkPositions(arg.v) = {}) =>
         ret.value = Selected(arg.v[1])

\* a list of three with two work contacts, the first of them second in the
\* list, has been searched
C3_Witness ==
  /\ SelectorReturned
  /\ kind = "person"
  /\ WorkPositions(arg.v) = {2, 3}
  /\ ret.value = arg.v[2]

\* C4 as claimed: a contact whose category is "work" in any case ("Work",
\* "WORK") counts as a work contact and is returned before any earlier
\* contact that is not one, by the selector of every transformer.
C4_CaseInsensitiveWork ==
  (SelectorReturned /\ AnyCaseWorkPositions(arg.v) # {}) =>
    ret.value = Selected(arg.v[Minimum(AnyCaseWorkPositions(arg.v))])

\* C4 as the code has it: the category is compared to "work" exactly.  A
\* contact other than the first is returned only if its category is "work"
\* letter for letter, and a list whose work contacts are all spelt "Work"
\* or "WORK" yields its first contact.
C4_ExactWork ==
  SelectorReturned =>
    /\ \A i \in 2..Len(arg.v) :
         (ret.value = Selected(arg.v[i]) /\ ret.value # Selected(arg.v[1]))
           => ContactCategory(arg.v[i]) = sWork
    /\ (Len(arg.v) > 0 /\ WorkPositions(arg.v) = {}) =>
         ret.value = Selected(arg.v[1])

\* a list that starts with a home contact and goes on with a "Work" one has
\* been searched by the Company selector, which returned the home contact
C4_Witness ==
  /\ SelectorReturned
  /\ kind = "company"
  /\ Len(arg.v) >= 2
  /\ ContactCategory(arg.v[1]) = sHome
  /\ ContactCategory(arg.v[2]) = sWorkCap
  /\ WorkPositions(arg.v) = {}
  /\ ret.value = arg.v[1]

\* s is the decimal numeral of the natural number n: digits only, no
\* leading zero, and of value n
IsDecimalOf(s, n) ==
  /\ IsDecimal(s)
  /\ Len(s) > 1 => s[1] # "0"
  /\ DigitsToNat(s) = n

BuilderReturned == op = "_create_relationship" /\ pc = "return"

\* the relationship built for a non-null id: type and decimal id
BuiltData(value) ==
  /\ value.t = "dict" /\ DOMAIN value.v = {"data"}
  /\ value.v["data"].t = "dict"
  /\ DOMAIN value.v["data"].v \subseteq {"type", "id", "name"}
  /\ {"type", "id"} \subseteq DOMAIN value.v["data"].v
  /\ value.v["data"].v["type"] = arg.rel_type
  /\ value.v["data"].v["id"].t = "str"
  /\ IsDecimalOf(value.v["data"].v["id"].v, arg.rel_id.v)

\* C5 as claimed: a null id gives {"data": None} whatever the type and the
\* name; a non-null id gives the type and str(id), with the key "name"
\* exactly when the name given is not null.
C5_NameWhenNotNull ==
  BuilderReturned =>
    /\ ret.raised = ""
    /\ IsNone(arg.rel_id) => ret.value = PyDict([data |-> PyNone])
    /\ ~IsNone(arg.rel_id) =>
         /\ BuiltData(ret.value)
         /\ HasKey(ret.value.v["data"], "name") <=> ~IsNone(arg.name)
         /\ HasKey(ret.value.v["data"], "name") =>
              ret.value.v["data"].v["name"] = arg.name

\* C5 as the code has it: the key "name" is there exactly when the name
\* given is neither null nor the empty string.
C5_NameWhenNotEmpty ==
  BuilderReturned =>
    /\ ret.raised = ""
    /\ IsNone(arg.rel_id) => ret.value = PyDict([data |-> PyNone])
    /\ ~IsNone(arg.rel_id) =>
         /\ BuiltData(ret.value)
         /\ HasKey(ret.value.v["data"], "name")
              <=> (~IsNone(arg.name) /\ arg.name # PyStr(sEmpty))
         /\ HasKey(ret.value.v["data"], "name") =>
              ret.value.v["data"].v["name"] = arg.name

\* a relationship to the largest id has been built with the empty name and
\* carries no name
C5_Witness ==
  /\ BuilderReturned
  /\ arg.rel_id = PyInt(MaxId)
  /\ arg.name = PyStr(sEmpty)
  /\ ret.value.v["data"].t = "dict"
  /\ ~HasKey(ret.value.v["data"], "name")

(***************************************************************************)
(* Properties of the transformers.                                         *)
(***************************************************************************)
\* the CRM field a relationship is built from and written back to
FieldOf(name) ==
  CASE name = "company" -> "company_id"
    [] name = "assignee" -> "assignee_id"
    [] name = "primary_contact" -> "primary_contact_id"
    [] OTHER -> name

\* the foreign key of the record behind the relationship `name`: the id
\* field, or the id of the parent / related resource; None when absent
ForeignKey(record, name) ==
  IF name \in {"parent", "related_resource"}
  THEN IF record[name].t = "dict" /\ HasKey(record[name], "id")
       THEN record[name].v["id"] ELSE PyNone
  ELSE record[FieldOf(name)]

ForwardReturned ==
  /\ op \in {"to_mcp", "_to_mcp_format"}
  /\ pc \in {"return", "reversed"}
  /\ ret.raised = ""

\* x is the id n as a str: the decimal numeral of an int, the str itself
\* of an id the CRM model already holds as a str
IsRenderedId(x, n) ==
  /\ x.t = "str"
  /\ n.t = "int" => IsDecimalOf(x.v, n.v)
  /\ n.t = "str" => x = n

\* the data of the relationship `name` of an envelope, None when the
\* name is not a key or its data is null
RelationshipDataOf(envelope, name) ==
  IF /\ HasKey(envelope.v["relationships"], name)
     /\ HasKey(envelope.v["relationships"].v[name], "data")
  THEN envelope.v["relationships"].v[name].v["data"]
  ELSE PyNone

\* C7: in every envelope a forward transformer produces, source_id is the
\* decimal string of the record's id and the id of every non-null
\* relationship the decimal string of its foreign key, never a number.
C7_IdsAreDecimalStrings ==
  ForwardReturned =>
    /\ (op = "to_mcp" /\ arg.id.t = "int") =>
         IsRenderedId(ret.value.v["source_id"], arg.id)
    /\ \A name \in RelationshipNames(kind) :
         ~IsNone(RelationshipDataOf(ret.value, name)) =>
           /\ HasKey(RelationshipDataOf(ret.value, name), "id")
           /\ IsRenderedId(RelationshipDataOf(ret.value, name).v["id"],
                           ForeignKey(arg, name))

\* to_mcp of a person with the largest id, assigned to user 7 and employed
\* by the company with the largest id, has returned its envelope
C7_Witness ==
  /\ ForwardReturned
  /\ op = "to_mcp"
  /\ kind = "person"
  /\ arg.id = PyInt(MaxId)
  /\ arg.company_id = PyInt(MaxId)
  /\ arg.assignee_id = PyInt(7)
  /\ ret.value.v["source_id"] = PyStr(IntToStr(MaxId))
  /\ ~IsNone(RelationshipDataOf(ret.value, "company"))
  /\ ~IsNone(RelationshipDataOf(ret.value, "assignee"))

\* a reverse transformer has returned a payload for the envelope e
ReverseReturned(e, out) == out.raised = "" /\ e.t = "dict"

\* the payload `out` of the envelope e has no key for any relationship the
\* envelope has no key for
AbsentStaysUnset(e, out) ==
  \A name \in RelationshipNames(kind) :
    ~HasKey(e.v["relationships"], name) => ~HasKey(out.value, FieldOf(name))

\* C8: the payload of a reverse transformer has no key at all for the
\* field of a relationship that is not a key of the envelope's
\* relationships (assignee_id, company_id, primary_contact_id, parent,
\* related_resource), whether the envelope was given or comes from the
\* forward transformer.
C8_AbsentRelationshipUnset ==
  /\ (op = "_to_copper_format" /\ pc = "return" /\ ret.raised = "")
       => AbsentStaysUnset(arg, ret)
  /\ (op = "_to_mcp_format" /\ pc = "reversed" /\ rev.raised = "")
       => AbsentStaysUnset(ret.value, rev)

\* a task envelope with a related resource and no assignee has been
\* reversed: the payload has the related resource and no assignee_id
C8_Witness ==
  /\ op = "_to_copper_format"
  /\ pc = "return"
  /\ kind = "task"
  /\ ret.raised = ""
  /\ DOMAIN arg.v["relationships"].v = {"related_resource"}
  /\ HasKey(ret.value, "related_resource")
  /\ ~HasKey(ret.value, "assignee_id")

\* the scalar attributes of a record of each kind the round trip is to
\* reproduce, and its id fields
ScalarFields(k) ==
  CASE k = "person" -> {"name", "details", "title"}
    [] k = "company" -> {"name", "details", "status", "industry",
                         "annual_revenue", "employee_count", "email_domain"}
    [] k = "opportunity" -> {"name", "details", "status", "priority",
                             "monetary_value", "win_probability"}
    [] k = "activity" -> {"details"}
    [] OTHER -> {"name", "details", "status", "priority"}

IdFields(k) ==
  CASE k = "person" -> {"company_id", "assignee_id"}
    [] k = "company" -> {"assignee_id", "primary_contact_id"}
    [] k = "opportunity" -> {"company_id", "primary_contact_id", "assignee_id",
                             "pipeline_id", "pipeline_stage_id"}
    [] OTHER -> {"assignee_id"}

\* every relationship id of the record is present
AllIdsPresent(k, record) ==
  /\ \A f \in IdFields(k) : ~IsNone(record[f])
  /\ \A name \in RelationshipNames(k) : ~IsNone(ForeignKey(record, name))

\* the payload reproduces the field f of the record
Reproduced(payload, record, f) ==
  HasKey(payload, f) /\ payload.v[f] = record[f]

\* the payload reproduces the type and the id, as an integer, of the
\* parent / related resource of the record
ReproducedResource(payload, record, f) ==
  /\ HasKey(payload, f)
  /\ payload.v[f].t = "dict"
  /\ HasKey(payload.v[f], "id")
  /\ payload.v[f].v["id"].t = "int"
  /\ PyStrOf(payload.v[f].v["id"]) = PyStrOf(record[f].v["id"])

\* C1: for a record of any kind with every relationship id present, the
\* forward transformer returns an envelope from which the reverse
\* transformer returns a payload with every id field and every scalar
\* attribute of the record at its original value.
C1_RoundTrip ==
  (op = "_to_mcp_format" /\ AllIdsPresent(kind, arg)) =>
    /\ pc = "return" => ret.raised = ""
    /\ pc = "reversed" =>
         /\ rev.raised = ""
         /\ \A f \in IdFields(kind) \cup ScalarFields(kind) :
              Reproduced(rev.value, arg, f)
         /\ \A f \in RelationshipNames(kind)
                       \cap {"parent", "related_resource"} :
              ReproducedResource(rev.value, arg, f)

\* the MCP envelope is complete: the type of the entity, the source
\* "copper", a source_id, and attributes, relationships and meta as
\* mappings
CompleteEnvelope(k, envelope) ==
  /\ envelope.t = "dict"
  /\ {"type", "source", "source_id", "attributes", "relationships", "meta"}
       \subseteq DOMAIN envelope.v
  /\ envelope.v["type"] = PyStr(TypeLiteral(k))
  /\ envelope.v["source"] = PyStr(sCopper)
  /\ envelope.v["source_id"].t = "str"
  /\ envelope.v["attributes"].t = "dict"
  /\ envelope.v["relationships"].t = "dict"
  /\ envelope.v["meta"].t = "dict"

\* C2: to_mcp of a schema-valid record of any kind returns, without
\* raising, a complete MCP envelope.
C2_ToMcpReturnsEnvelope ==
  (op = "to_mcp" /\ pc = "return" /\ CopperAccepted(kind, arg)) =>
    /\ ret.raised = ""
    /\ CompleteEnvelope(kind, ret.value)

\* C6: in the output of a forward transformer, every relationship of the
\* entity whose foreign key is absent or null in the record is present
\* under its name and maps to {"data": null}.
C6_AbsentForeignKeyIsNullData ==
  ForwardReturned =>
    \A name \in RelationshipNames(kind) :
      IsNone(ForeignKey(arg, name)) =>
        /\ HasKey(ret.value.v["relationships"], name)
        /\ ret.value.v["relationships"].v[name].t = "dict"
        /\ HasKey(ret.value.v["relationships"].v[name], "data")
        /\ IsNone(ret.value.v["relationships"].v[name].v["data"])

\* the timestamp is None or 0
NoTimestamp(x) == IsNone(x) \/ x = PyInt(0)

\* the attribute f of the envelope is null: not a key, or None
NullAttribute(envelope, f) == IsNone(DictGet(envelope.v["attributes"], f))

\* C9: a timestamp that is None or 0 is rendered as null, never as a
\* string of the epoch, by the normalizer of every transformer and in
\* created_at / updated_at of every envelope.
C9_NoTimestampIsNull ==
  /\ (op = "_format_datetime" /\ pc = "return" /\ NoTimestamp(arg))
       => ret = Returned(PyNone)
  /\ (op = "to_mcp" /\ pc = "return" /\ ret.raised = "") =>
       /\ ("date_created" \in DOMAIN arg /\ NoTimestamp(arg.date_created))
            => NullAttribute(ret.value, "created_at")
       /\ ("date_modified" \in DOMAIN arg /\ NoTimestamp(arg.date_modified))
            => NullAttribute(ret.value, "updated_at")

\* the date attributes of the kinds whose CRM dates are Unix timestamps
DateAttributes(k) ==
  CASE k = "activity" -> {"activity_date"}
    [] k = "task" -> {"due_date", "reminder_date", "completed_date"}
    [] OTHER -> {}

\* x is what a normalizer renders: null, or a str that ends in Z
IsNormalized(x) ==
  \/ IsNone(x)
  \/ x.t = "str" /\ Len(x.v) > 0 /\ x.v[Len(x.v)] = "Z"

\* C10: in the forward output, activity_date of an activity and due_date,
\* reminder_date and completed_date of a task are the normalizer's
\* rendering of the CRM value, an ISO-8601 string ending in Z or null,
\* never the Unix integer.
C10_DatesAreNormalized ==
  ForwardReturned =>
    \A f \in DateAttributes(kind) :
      IsNormalized(DictGet(ret.value.v["attributes"], f))

\* C11: the forward transform of an activity with a parent emits the
\* parent relationship: its data is the parent type in lower case and the
\* decimal string of the parent id, whatever the case of the CRM type.
C11_ActivityParentRelationship ==
  (/\ op \in {"to_mcp", "_to_mcp_format"}
   /\ kind = "activity"
   /\ pc = "return"
   /\ Truthy(arg.parent)) =>
    /\ ret.raised = ""
    /\ ~IsNone(RelationshipDataOf(ret.value, "parent"))
    /\ RelationshipDataOf(ret.value, "parent").v["type"]
         = PyStr(Lower(arg.parent.v["type"].v))
    /\ IsRenderedId(RelationshipDataOf(ret.value, "parent").v["id"],
                    arg.parent.v["id"])

\* the custom fields of a record as a sequence of <<id, value>>: the
\* entries are CustomField objects, or dicts in a task; none when null
OriginalCustomFields(record) ==
  IF record.custom_fields.t = "list"
  THEN [i \in 1..Len(record.custom_fields.v) |->
          <<record.custom_fields.v[i].v.custom_field_definition_id,
            record.custom_fields.v[i].v.value>>]
  ELSE << >>

\* the payload carries the custom fields of the record: as many entries,
\* each with the integer definition id and the value of the original
CustomFieldsReproduced(payload, record) ==
  /\ HasKey(payload, "custom_fields")
  /\ payload.v["custom_fields"].t = "list"
  /\ Len(payload.v["custom_fields"].v) = Len(OriginalCustomFields(record))
  /\ \A i \in 1..Len(OriginalCustomFields(record)) :
       /\ payload.v["custom_fields"].v[i].t = "dict"
       /\ DictGet(payload.v["custom_fields"].v[i], "custom_field_definition_id")
            = OriginalCustomFields(record)[i][1]
       /\ DictGet(payload.v["custom_fields"].v[i], "value")
            = OriginalCustomFields(record)[i][2]

\* C12: for every entity type the forward transformer does not fail on
\* the custom fields of a record, and the reverse transformer turns the
\* meta.custom_fields it produced back into the CRM list: as many entries,
\* with the same definition ids as integers and the same values.
C12_CustomFieldsRoundTrip ==
  op = "_to_mcp_format" =>
    /\ (pc = "return" /\ ret.raised # "") =>
         ToMcpFormatOf(kind,
                       ModelValidate(kind,
                                     [arg EXCEPT !.custom_fields = PyList(<< >>)])
                      ).raised # ""
    /\ pc = "reversed" =>
         /\ rev.raised = ""
         /\ CustomFieldsReproduced(rev.value, arg)

\* the i-th contact of the list appears at position i of the list of the
\* output, with its category and its email / phone
SameContacts(carried, contacts, key) ==
  /\ carried.t = "list"
  /\ Len(carried.v) = Len(contacts.v)
  /\ \A i \in 1..Len(contacts.v) :
       /\ carried.v[i].t = "dict"
       /\ DictGet(carried.v[i], "category") = contacts.v[i].v.category
       /\ \E f \in DOMAIN carried.v[i].v :
            carried.v[i].v[f] = contacts.v[i].v[key]

\* C13: the forward output of a person or a company carries the full
\* emails / phone_numbers lists of the record, same elements in the same
\* order, beside the single primary value of attributes.email / phone.
C13_ContactListsPreserved ==
  (ForwardReturned /\ kind \in {"person", "company"}) =>
    /\ HasKey(ret.value.v["attributes"], "phone_numbers")
    /\ SameContacts(ret.value.v["attributes"].v["phone_numbers"],
                    arg.phone_numbers, "phone")
    /\ kind = "person" =>
         /\ HasKey(ret.value.v["attributes"], "emails")
         /\ SameContacts(ret.value.v["attributes"].v["emails"],
                         arg.emails, "email")

(***************************************************************************)
(* C14: required fields of the forward input                               *)
(***************************************************************************)
\* the field is missing from the input or null
Absent(x) == x \in {Missing, PyNone}

\* to_mcp was called on an input and has finished
ToMcpFinished == op = "to_mcp" /\ pc = "return"

\* a Person without name, an Opportunity without a pipeline id
LacksRequired ==
  \/ kind = "person" /\ Absent(arg.name)
  \/ kind = "opportunity" /\ (Absent(arg.pipeline_id) \/ Absent(arg.pipeline_stage_id))

\* a Person without any email
LacksEmail == kind = "person" /\ (arg.emails = Missing \/ arg.emails.v = << >>)

EmptyAttribute(name) == ~Truthy(DictGet(arg.v["attributes"], name))

\* C15 for the reverse transformers: _to_copper_format of a Person envelope
\* without a non-empty name, or of an Opportunity envelope without a
\* non-empty name, pipeline_id or pipeline_stage_id, raises a validation
\* failure and returns no payload
C15_PayloadNeedsRequiredFields ==
  (/\ op = "_to_copper_format"
   /\ pc = "return"
   /\ \/ kind \in {"person", "opportunity"} /\ EmptyAttribute("name")
      \/ kind = "opportunity" /\ EmptyAttribute("pipeline_id")
      \/ kind = "opportunity" /\ EmptyAttribute("pipeline_stage_id")) =>
    ret.raised \in {"ValidationError", "ValueError"}

(***************************************************************************)
(* C16: a negative monetary value                                          *)
(***************************************************************************)
\* C16: transforming an Opportunity whose monetary_value is negative raises
\* a validation error that names monetary_value, and produces no envelope
C16_NegativeValueRejected ==
  (/\ op \in {"to_mcp", "_to_mcp_format"}
   /\ kind = "opportunity"
   /\ pc = "return"
   /\ arg.monetary_value.t = "float"
   /\ arg.monetary_value.v < 0) =>
    /\ ret.raised = "ValidationError"
    /\ "monetary_value" \in CopperRejectedFields(kind, arg)

(***************************************************************************)
(* C17: the name split                                                     *)
(***************************************************************************)
\* C17: for a Person without name components, the forward transform
\* completes for every name, first_name is the first whitespace-delimited
\* token of the name and last_name the remaining tokens joined by single
\* spaces, null when the name has one token
C17_NameSplit ==
  (/\ op = "_to_mcp_format"
   /\ kind = "person"
   /\ pc = "return"
   /\ IsNone(arg.first_name)
   /\ IsNone(arg.last_name)) =>
    LET words == Split(arg.name.v)
        attributes == ret.value.v["attributes"]
    IN /\ ret.raised = ""
       /\ Len(words) > 0 => attributes.v["first_name"] = PyStr(words[1])
       /\ attributes.v["last_name"] =
            (IF Len(words) > 1 THEN PyStr(JoinBlank(SubSeq(words, 2, Len(words))))
             ELSE PyNone)

(***************************************************************************)
(* C18: failures reach the caller                                          *)
(***************************************************************************)
\* the search looks at entity type k
Searched(k) ==
  ~Truthy(arg.entity_type) \/ arg.entity_type = PyStr(TypeLiteral(k))

\* to_mcp fails on one of the records the Copper API found for type k
FailsToTransform(k) ==
  LET found == arg.upstream[k][1]
  IN /\ found.status = 200
     /\ \E i \in 1..Len(found.data.v) :
          Base_to_mcp(k, found.data.v[i]).raised # ""

\* C18: when transforming a record fails while a request is handled, the
\* caller receives an error: GET /search returns no success result from
\* which the failing records were omitted, and a GET by id whose record
\* fails to transform answers with an error
C18_FailuresSurface ==
  /\ (/\ op = "search"
      /\ pc = "return"
      /\ arg.auth
      /\ \E k \in EndpointKinds : Searched(k) /\ FailsToTransform(k)) =>
       ret.raised # ""
  /\ (/\ op = "get"
      /\ pc = "return"
      /\ CopperClient_request(MAX_RETRIES, arg.upstream, 0).raised = ""
      /\ Base_to_mcp(kind, CopperClient_request(MAX_RETRIES, arg.upstream, 0).value).raised # "") =>
       ret.raised # ""

(***************************************************************************)
(* C20: the status codes of the GET endpoints                              *)
(***************************************************************************)
\* C20: a GET by id answers 401 when authentication fails, 404 when the
\* Copper API answered 404, 502 for every other error of the Copper API,
\* and 422 when the record of the Copper API fails validation
C20_UpstreamErrorMapping ==
  (op = "get" /\ pc = "return") =>
    LET response == CopperClient_request(MAX_RETRIES, arg.upstream, 0)
    IN /\ ~arg.auth => ret = HTTPException(401)
       /\ (arg.auth /\ response.raised # "") =>
            ret = HTTPException(IF response.status_code = PyInt(404)
                                THEN 404 ELSE 502)
       /\ (arg.auth /\ response.raised = ""
                    /\ ~CopperAccepted(kind, response.value)) =>
            ret = HTTPException(422)

(***************************************************************************)
(* C19: the two shapes of a response                                       *)
(***************************************************************************)
\* {"status": "success", "data": ...}
SuccessShape(response) ==
  /\ response.t = "dict"
  /\ DOMAIN response.v = {"status", "data"}
  /\ response.v["status"] = PyStr(<<"s", "u", "c", "c", "e", "s", "s">>)

\* {"status": "error", "error": {"type": ..., "message": ..., "details": ...}}
ErrorShape(response) ==
  /\ response.t = "dict"
  /\ DOMAIN response.v = {"status", "error"}
  /\ response.v["status"] = PyStr(<<"e", "r", "r", "o", "r">>)
  /\ response.v["error"].t = "dict"
  /\ DOMAIN response.v["error"].v = {"type", "message", "details"}
  /\ response.v["error"].v["type"].t = "str"
  /\ response.v["error"].v["message"].t = "str"

\* the command names a tool or handler and that ends without an exception
Succeeds ==
  arg.name = PyStr(<<"g", "e", "t", "_", "p", "e", "r", "s", "o", "n">>) /\ arg.outcome.raised = ""

\* C19: every dispatched command yields one response, of the success shape
\* when the command succeeds and of the error shape, with status "error",
\* an error type and a message, on any failure
C19_ResponseShapes ==
  (op = "process_command" /\ pc = "return") =>
    /\ ret.raised = ""
    /\ Succeeds => SuccessShape(ret.value)
    /\ ~Succeeds => ErrorShape(ret.value)

(***************************************************************************)
(* C21, C22, C23: the retries of CopperClient._request                     *)
(***************************************************************************)
\* _request was called and has ended
Requested == op = "_request" /\ pc = "return"

\* the response to the i-th attempt
Outcome(i) ==
  arg.upstream[IF i < Len(arg.upstream) THEN i ELSE Len(arg.upstream)]

\* the response is one _request retries: 429, 5xx or a network error
Retryable(response) ==
  response.status \in {0, 429} \/ response.status >= 500

\* the call made at most max_retries + 1 attempts, every attempt but the
\* last got a 429, a 5xx or a network error, and such an outcome ended the
\* call only when the retries were exhausted
RetriedWithinBound ==
  LET max_retries == CopperClient_init(arg.max_retries)
  IN /\ ret.attempts >= 1
     /\ ret.attempts <= max_retries + 1
     /\ \A i \in 1..(ret.attempts - 1) : Retryable(Outcome(i))
     /\ Retryable(Outcome(ret.attempts)) =>
          arg.retry_count + ret.attempts > max_retries

C22_ConstructorBound ==
  (Requested /\ ~IsNone(arg.max_retries) /\ arg.retry_count = 0) =>
    ret.attempts <= arg.max_retries.v + 1

\* C23: a response of status 4xx other than 429 is never retried: the
\* attempt that got it is the last one, and CopperAPIError carries that
\* status
C23_ClientErrorsNotRetried ==
  Requested =>
    \A i \in 1..Len(arg.upstream) :
      (/\ i <= ret.attempts
       /\ Outcome(i).status \in 400..499
       /\ Outcome(i).status # 429) =>
        /\ ret.attempts = i
        /\ ret.raised = "CopperAPIError"
        /\ ret.status_code = PyInt(Outcome(i).status)

\* a 404 came after a retry and ended the call
C23_Witness ==
  /\ Requested
  /\ ret.attempts = 2
  /\ Outcome(2).status = 404
  /\ arg.retry_count + 2 <= CopperClient_init(arg.max_retries)
  /\ ret.status_code = PyInt(404)

(***************************************************************************)
(* C24: the tokens get_auth_token returns                                  *)
(***************************************************************************)
\* C24: after any sequence of calls of the credential functions, a value
\* that get_auth_token returns passes validate_token
C24_ReturnedTokenIsValid ==
  (op = "auth" /\ kind = "get_auth_token" /\ ret.raised = "") =>
    validate_token(ret.value) = Returned(TRUE)

(***************************************************************************)
(* C25, C26: the reverse transformers on sparse envelopes                  *)
(***************************************************************************)
\* _to_copper_format was called and has ended
Reversed == op = "_to_copper_format" /\ pc = "return"

\* the envelope without the relationship `name`
WithoutRelationship(envelope, name) ==
  LET relationships == envelope.v["relationships"].v
  IN PyDict([envelope.v EXCEPT !["relationships"] =
               PyDict([n \in DOMAIN relationships \ {name} |->
                         relationships[n]])])

\* the relationship `name` of the envelope is present as {"data": None}
Unpopulated(envelope, name) ==
  /\ HasKey(envelope.v["relationships"], name)
  /\ envelope.v["relationships"].v[name] = PyDict([data |-> PyNone])

\* the key of the CRM payload that the relationship `name` fills
PayloadKey(name) ==
  CASE name = "company" -> "company_id"
    [] name = "assignee" -> "assignee_id"
    [] name = "primary_contact" -> "primary_contact_id"
    [] OTHER -> name

\* C25: an envelope whose relationship is present but unpopulated
\* ({"data": None}), and which reverses without error when that relationship
\* is taken out, reverses without error and without the key of that
\* relationship in the CRM payload
C25_UnpopulatedRelationshipSkipped ==
  Reversed =>
    \A name \in RelationshipNames(kind) :
      (/\ Unpopulated(arg, name)
       /\ ToCopperFormatOf(kind, WithoutRelationship(arg, name)).raised = "") =>
        /\ ret.raised = ""
        /\ PayloadKey(name) \notin DOMAIN ret.value.v

\* the scalar attributes the reverse transformer of kind k copies
ScalarAttributes(k) ==
  CASE k = "person" -> {"name", "email", "details"}
    [] k = "company" -> {"name", "email_domain", "details", "industry",
                         "annual_revenue", "employee_count", "status"}
    [] k = "opportunity" -> {"name", "status", "details", "monetary_value",
                             "win_probability", "close_date"}
    [] k = "activity" -> {"details", "activity_date"}
    [] OTHER -> {"name", "details", "status", "priority", "due_date",
                 "reminder_date", "completed_date"}

InvalidArguments ==
  \/ \E i \in 1..Len(Handlers[arg.command].required) :
       ~Truthy(DictGet(arg.args, Handlers[arg.command].required[i]))
  \/ /\ arg.command = "get_entity_activities"
     /\ DictGet(arg.args, "entity_type") \notin valid_types

\* C27: a handler given invalid arguments fails with a validation error
\* and has invoked no CRM client method
C27_NoCallOnInvalidArguments ==
  (op = "handle" /\ pc = "return" /\ InvalidArguments) =>
    /\ ret.raised \in {"MCPValidationError", "ValueError"}
    /\ ret.calls = << >>

(***************************************************************************)
(* C28: bulk_create                                                        *)
(***************************************************************************)
\* bulk_create was called and has ended
BulkCreated == op = "bulk_create" /\ pc = "return"

\* the item has the fields create requires
Creatable(opportunity) ==
  /\ Truthy(DictGet(opportunity, "name"))
  /\ Truthy(DictGet(opportunity, "pipeline_id"))
  /\ Truthy(DictGet(opportunity, "pipeline_stage_id"))

\* the creation of item i fails: it lacks a required field or the Copper
\* API answers its POST with an error
ItemFails(i) ==
  \/ ~Creatable(arg.opportunities[i])
  \/ arg.upstream[i][1].status = 0
  \/ arg.upstream[i][1].status >= 400

\* the text sub occurs in the text s
Occurs(sub, s) ==
  \E k \in 1..(Len(s) - Len(sub) + 1) : SubSeq(s, k, k + Len(sub) - 1) = sub

C29_NameComponentsPassThrough ==
  (/\ op = "_to_mcp_format"
   /\ kind = "person"
   /\ pc = "return"
   /\ ret.raised = "") =>
    LET attributes == ret.value.v["attributes"]
    IN /\ ~IsNone(arg.first_name) =>
            attributes.v["first_name"] = arg.first_name
       /\ ~IsNone(arg.last_name) =>
            attributes.v["last_name"] = arg.last_name

(***************************************************************************)
(* C30: the caller's arguments                                             *)
(***************************************************************************)
\* C30: when BaseEntityClient.search or CompaniesClient.create or .update
\* has returned or raised, the caller's query or company dict has the keys
\* and values it had before the call
C30_ArgumentsUnmodified ==
  (kind = "client" /\ pc = "return") =>
    ret.after = (IF op = "BaseEntityClient.search" THEN arg.query
                 ELSE arg.company)

====
